---- MODULE Spec2Model ----
(***************************************************************************)
(* A model of the sp-blockchain settlement node: the consensus engine      *)
(* (src/src/network/consensus.rs) and the settlement pipeline              *)
(* (src/src/simple_blockchain.rs) over its record and block store          *)
(* (src/src/storage/rocks_store.rs).                                       *)
(***************************************************************************)
EXTENDS Integers, Sequences, FiniteSets, TLC

(***************************************************************************)
(* Bounds of the model.                                                    *)
(***************************************************************************)
\* hashes of the blocks this node proposes itself (one per local proposal)
MaxLocalBlocks == 2
\* hashes of the blocks announced by peers
MaxPeerBlocks == 1
\* vote messages handled by the node in one run of the pipeline
MaxVoteMsgs == 4
\* submissions whose record is not the plain case (proof verified,
\* settlement_status Pending)
MaxOddRecords == 1
\* block hashes of the stand-alone consensus engine
MaxEngineHashes == 2
\* rounds started on the stand-alone consensus engine
MaxEngineStarts == 2
\* votes handed to the stand-alone consensus engine
MaxEngineVotes == 5
\* repeated calls of finalize_settlement_block
MaxReplays == 2
\* blocks proposed in the chain of local proposals
MaxChainBlocks == 3
\* blocks proposed by the request handler that runs step by step
MaxTaskBlocks == 1
\* vote messages handled by the network loop that runs step by step
MaxTaskVotes == 4
\* the longest contract program
MaxProgramLen == 4
\* calls of generate_proof, and of verify_proof, on one proof system
MaxProofCalls == 5
\* gas_limit of SmartContractVM::new: 1,000,000 in the source, scaled down so that a
\* program that jumps backward uses it up
GasLimit == 8
\* the handlers that run at the same time
MaxLockTasks == 2
\* gas_limit: Some(1_000_000) of SmartContractVM::new
gas_limit == 1000000

(***************************************************************************)
(* Option<T>: None is the empty tuple, Some(x) the one-element tuple.       *)
(***************************************************************************)
None == <<>>
Some(x) == <<x>>

(***************************************************************************)
(* Consensus engine: src/src/network/consensus.rs                          *)
(***************************************************************************)
\* the five consortium validators of SimpleConsensus::new, all active
ValidatorIds == {"tmobile-de", "vodafone-uk", "orange-fr", "telenor-no", "sfr-fr"}
validators == [v \in ValidatorIds |-> [node_id |-> v, is_active |-> TRUE]]

\* ConsensusConfig::default
min_validators == 3
\* approval_threshold 0.67, in percent
approval_threshold_pct == 67
max_concurrent_rounds == 10

\* approval_rate >= approval_threshold, with approval_rate = approvals / total_votes
RateMeetsThreshold(approvals, total_votes) ==
    approvals * 100 >= approval_threshold_pct * total_votes

\* a ConsensusRound as start_consensus creates it
NewRound(block_hash, now) ==
    [block_hash |-> block_hash, votes |-> [v \in {} |-> TRUE],
     started_at |-> now, finalized |-> FALSE, result |-> None]

\* results and errors of the engine's operations
Ok == [tag |-> "Ok"]
Err(e) == [tag |-> "Err", error |-> e]
InProgress(received, needed) ==
    [tag |-> "InProgress", votes_received |-> received, votes_needed |-> needed]
Finalized(approved) == [tag |-> "Finalized", approved |-> approved]
AlreadyFinalized(result) == [tag |-> "AlreadyFinalized", result |-> result]

\* start_consensus: the rounds after the call and its result
StartConsensus(active_rounds, block_hash, now) ==
    IF block_hash \in DOMAIN active_rounds
    THEN [rounds |-> active_rounds, res |-> Err("RoundAlreadyExists")]
    ELSE IF Cardinality(DOMAIN active_rounds) >= max_concurrent_rounds
    THEN [rounds |-> active_rounds, res |-> Err("TooManyActiveRounds")]
    ELSE [rounds |-> (block_hash :> NewRound(block_hash, now)) @@ active_rounds,
          res |-> Ok]

Approvals(round) == Cardinality({v \in DOMAIN round.votes : round.votes[v]})
Rejections(round) == Cardinality({v \in DOMAIN round.votes : ~round.votes[v]})

\* check_consensus with the approval rate taken over the active validators
CheckConsensus_RateOverValidators(active_rounds, block_hash) ==
    IF block_hash \notin DOMAIN active_rounds
    THEN [rounds |-> active_rounds, res |-> Err("NoActiveRound")]
    ELSE
    LET round == active_rounds[block_hash]
        active_validators == Cardinality({v \in ValidatorIds : validators[v].is_active})
        approvals == Approvals(round)
        total_votes == approvals + Rejections(round)
    IN  IF round.finalized
        THEN [rounds |-> active_rounds, res |-> AlreadyFinalized(round.result)]
        ELSE IF Cardinality(DOMAIN round.votes) < min_validators
        THEN [rounds |-> active_rounds,
              res |-> InProgress(Cardinality(DOMAIN round.votes), min_validators)]
        ELSE IF total_votes >= active_validators
                \/ RateMeetsThreshold(approvals, active_validators)
        THEN LET approved == RateMeetsThreshold(approvals, active_validators)
             IN  [rounds |-> [active_rounds EXCEPT ![block_hash] =
                                [round EXCEPT !.finalized = TRUE,
                                              !.result = Some(approved)]],
                  res |-> Finalized(approved)]
        ELSE [rounds |-> active_rounds,
              res |-> InProgress(total_votes, active_validators)]

\* check_consensus without the test of minimum participation
CheckConsensus_NoMinimum(active_rounds, block_hash) ==
    IF block_hash \notin DOMAIN active_rounds
    THEN [rounds |-> active_rounds, res |-> Err("NoActiveRound")]
    ELSE
    LET round == active_rounds[block_hash]
        active_validators == Cardinality({v \in ValidatorIds : validators[v].is_active})
        approvals == Approvals(round)
        total_votes == approvals + Rejections(round)
    IN  IF round.finalized
        THEN [rounds |-> active_rounds, res |-> AlreadyFinalized(round.result)]
        ELSE IF total_votes >= active_validators
                \/ RateMeetsThreshold(approvals, total_votes)
        THEN LET approved == RateMeetsThreshold(approvals, total_votes)
             IN  [rounds |-> [active_rounds EXCEPT ![block_hash] =
                                [round EXCEPT !.finalized = TRUE,
                                              !.result = Some(approved)]],
                  res |-> Finalized(approved)]
        ELSE [rounds |-> active_rounds,
              res |-> InProgress(total_votes, active_validators)]

\* check_consensus: the rounds after the call and its result
CheckConsensus(active_rounds, block_hash) ==
    IF block_hash \notin DOMAIN active_rounds
    THEN [rounds |-> active_rounds, res |-> Err("NoActiveRound")]
    ELSE
    LET round == active_rounds[block_hash]
        active_validators == Cardinality({v \in ValidatorIds : validators[v].is_active})
        approvals == Approvals(round)
        total_votes == approvals + Rejections(round)
    IN  IF round.finalized
        THEN [rounds |-> active_rounds, res |-> AlreadyFinalized(round.result)]
        ELSE IF Cardinality(DOMAIN round.votes) < min_validators
        THEN [rounds |-> active_rounds,
              res |-> InProgress(Cardinality(DOMAIN round.votes), min_validators)]
        ELSE IF total_votes >= active_validators
                \/ RateMeetsThreshold(approvals, total_votes)
        THEN LET approved == RateMeetsThreshold(approvals, total_votes)
             IN  [rounds |-> [active_rounds EXCEPT ![block_hash] =
                                [round EXCEPT !.finalized = TRUE,
                                              !.result = Some(approved)]],
                  res |-> Finalized(approved)]
        ELSE [rounds |-> active_rounds,
              res |-> InProgress(total_votes, active_validators)]

\* HashMap::insert on the vote map: a later vote of a validator replaces its earlier one
InsertVote(votes, validator_id, approve) ==
    [v \in DOMAIN votes \cup {validator_id} |->
        IF v = validator_id THEN approve ELSE votes[v]]

\* process_vote without the test that the validator is known and active
ProcessVote_AnyValidator(active_rounds, validator_id, block_hash, approve) ==
    IF block_hash \notin DOMAIN active_rounds
    THEN [rounds |-> active_rounds, res |-> Err("NoActiveRound")]
    ELSE IF active_rounds[block_hash].finalized
    THEN [rounds |-> active_rounds, res |-> Err("RoundAlreadyFinalized")]
    ELSE CheckConsensus(
            [active_rounds EXCEPT ![block_hash].votes =
                InsertVote(@, validator_id, approve)],
            block_hash)

\* process_vote: the rounds after the call and its result
ProcessVote(active_rounds, validator_id, block_hash, approve) ==
    IF validator_id \notin ValidatorIds
    THEN [rounds |-> active_rounds, res |-> Err("UnknownValidator")]
    ELSE IF ~validators[validator_id].is_active
    THEN [rounds |-> active_rounds, res |-> Err("InactiveValidator")]
    ELSE IF block_hash \notin DOMAIN active_rounds
    THEN [rounds |-> active_rounds, res |-> Err("NoActiveRound")]
    ELSE IF active_rounds[block_hash].finalized
    THEN [rounds |-> active_rounds, res |-> Err("RoundAlreadyFinalized")]
    ELSE CheckConsensus(
            [active_rounds EXCEPT ![block_hash].votes =
                InsertVote(@, validator_id, approve)],
            block_hash)

\* cleanup_expired_rounds: the rounds started before `cutoff` are older than
\* timeout_duration; those of them that are not finalized are removed
CleanupExpiredRounds(active_rounds, cutoff) ==
    LET expired_rounds == {h \in DOMAIN active_rounds :
                              /\ active_rounds[h].started_at < cutoff
                              /\ ~active_rounds[h].finalized}
    IN  [h \in DOMAIN active_rounds \ expired_rounds |-> active_rounds[h]]

(***************************************************************************)
(* Records and blocks: src/src/simple_blockchain.rs                        *)
(***************************************************************************)
\* SettlementStatus
SettlementStatuses == {"Pending", "InProgress", "Settled", "Disputed"}

\* the ids of the records submitted to the node
\* pending_count >= 10 in try_create_settlement_block
BlockThreshold == 10
\* the ids of the records submitted to the node: as many as one block takes
RecordIds == 1..BlockThreshold

\* Blake2bHash::hash(b"genesis")
GenesisHash == 0
LocalHashes == 1..MaxLocalBlocks
PeerHashes == (MaxLocalBlocks + 1)..(MaxLocalBlocks + MaxPeerBlocks)
BlockHashes == LocalHashes \cup PeerHashes

\* hex::encode(block_hash.as_bytes()): the text form of a hash, kept apart from the hash
HexEncode(block_hash) == <<"hex", block_hash>>

\* the operators and the charge of the submitted records: record i is the usage of a
\* subscriber of one operator of the consortium in the network of the next one,
\* charged i cents
OperatorOrder == <<"tmobile-de", "vodafone-uk", "orange-fr", "telenor-no", "sfr-fr">>
HomeOperatorOf(record_id) == OperatorOrder[(record_id % 5) + 1]
VisitedOperatorOf(record_id) == OperatorOrder[((record_id + 1) % 5) + 1]
ChargeOf(record_id) == record_id

\* a BceRecord as the submitter's JSON gives it: the settlement fields are
\* deserialized like all others, so the submitter sets settlement_status
BceRecord(record_id, proof_verified, settlement_status) ==
    [record_id |-> record_id, proof_verified |-> proof_verified,
     settlement_status |-> settlement_status, settled_in_block |-> None,
     settlement_id |-> None, home_operator |-> HomeOperatorOf(record_id),
     visited_operator |-> VisitedOperatorOf(record_id),
     wholesale_charge_cents |-> ChargeOf(record_id)]

\* mark_in_settlement: the record after the call and whether it returned Ok
MarkInSettlement(record, settlement_id) ==
    IF record.settlement_status = "Pending"
    THEN [record |-> [record EXCEPT !.settlement_status = "InProgress",
                                    !.settlement_id = Some(settlement_id)],
          ok |-> TRUE]
    ELSE [record |-> record, ok |-> FALSE]

\* mark_settled: the record after the call and whether it returned Ok
MarkSettled(record, block_hash_str) ==
    IF record.settlement_status # "InProgress"
    THEN [record |-> record, ok |-> FALSE]
    ELSE [record |-> [record EXCEPT !.settlement_status = "Settled",
                                    !.settled_in_block = Some(block_hash_str)],
          ok |-> TRUE]

\* can_be_settled
CanBeSettled(record) == record.settlement_status = "Pending"

\* the ids of a set in ascending order (the order of pending.values() is not fixed
\* by the code; no operation depends on it)
RECURSIVE SeqOfSet(_)
SeqOfSet(S) ==
    IF S = {} THEN <<>>
    ELSE LET m == CHOOSE x \in S : \A y \in S : x <= y
         IN  <<m>> \o SeqOfSet(S \ {m})

SeqRange(s) == {s[i] : i \in 1..Len(s)}

\* HashMap::entry(key).or_insert(0) followed by += amount
AddToBalance(operator_balances, operator, amount) ==
    [o \in DOMAIN operator_balances \cup {operator} |->
        IF o = operator
        THEN (IF o \in DOMAIN operator_balances THEN operator_balances[o] ELSE 0) + amount
        ELSE operator_balances[o]]

\* the loop of calculate_settlement_summary over the records: the home operator of a
\* record is debited its charge and the visited operator is credited it
RECURSIVE OperatorBalances(_, _)
OperatorBalances(records, operator_balances) ==
    IF records = <<>> THEN operator_balances
    ELSE LET record == Head(records)
             debited == AddToBalance(operator_balances, record.home_operator,
                                     0 - record.wholesale_charge_cents)
         IN  OperatorBalances(Tail(records),
                              AddToBalance(debited, record.visited_operator,
                                           record.wholesale_charge_cents))

RECURSIVE TotalAmountCents(_)
TotalAmountCents(records) ==
    IF records = <<>> THEN 0
    ELSE Head(records).wholesale_charge_cents + TotalAmountCents(Tail(records))

\* calculate_settlement_summary
CalculateSettlementSummary(records) ==
    [total_records |-> Len(records),
     total_amount_cents |-> TotalAmountCents(records),
     operator_balances |-> OperatorBalances(records, [o \in {} |-> 0])]

\* a SettlementBlock
SettlementBlock(block_hash, previous_hash, block_number, settlement_summary, record_ids, record_count) ==
    [block_hash |-> block_hash, previous_hash |-> previous_hash,
     block_number |-> block_number, settlement_summary |-> settlement_summary,
     record_ids |-> record_ids, record_count |-> record_count]

(***************************************************************************)
(* Store: src/src/storage/rocks_store.rs                                   *)
(***************************************************************************)
\* put_cf: the value under the key is replaced
Put(table, key, value) == [k \in DOMAIN table \cup {key} |->
                              IF k = key THEN value ELSE table[k]]
Remove(table, key) == [k \in DOMAIN table \ {key} |-> table[k]]
EmptyMap == [k \in {} |-> TRUE]

\* store_bce_record: keyed by record_id
StoreBceRecord(bce_records, record) == Put(bce_records, record.record_id, record)
\* store_settlement_block: keyed by block_number
StoreSettlementBlock(settlement_blocks, block) ==
    Put(settlement_blocks, block.block_number, block)

\* get_all_blocks().last(): the hash of the stored block of greatest number
LastBlockHash(settlement_blocks) ==
    IF DOMAIN settlement_blocks = {} THEN GenesisHash
    ELSE LET top == CHOOSE n \in DOMAIN settlement_blocks :
                        \A m \in DOMAIN settlement_blocks : m <= n
         IN  settlement_blocks[top].block_hash

(***************************************************************************)
(* The node: SimpleBlockchain, src/src/simple_blockchain.rs                *)
(***************************************************************************)
VARIABLES
    node_id,                \* SimpleBlockchain.node_id
    bce_records,            \* storage, column family bce_records: record_id -> record
    settlement_blocks,      \* storage, column family settlement_blocks: number -> block
    pending_records,        \* SimpleBlockchain.pending_records
    proposed_blocks,        \* SimpleBlockchain.proposed_blocks
    active_rounds,          \* SimpleBlockchain.consensus: SimpleConsensus.active_rounds
    current_block_number,   \* SimpleBlockchain.current_block_number
    finalized_blocks,       \* history: the blocks finalize_settlement_block has completed
    rejected_blocks,        \* history: the proposed blocks dropped on Finalized{approved: false}
    round_clock,            \* SystemTime::now() of start_consensus, as a count of rounds started
    local_blocks,           \* history: the number of blocks this node has proposed
    vote_msgs,              \* history: the number of vote messages handled
    odd_records,            \* history: the number of submissions that were not the plain case
    last_result,            \* the result of the last operation, as its caller gets it
    last_op,                \* history: the last operation and its arguments
    timed_out,              \* history: the block hashes whose round cleanup has removed
    cast_votes,             \* history: block hash -> the first vote each validator handed in
    recast,                 \* history: a validator handed in a second vote for a block hash
    ballot,                 \* two engines: the vote of each validator
    replica_rounds,         \* two engines: the active_rounds of each
    replica_cast,           \* two engines: the validators whose vote each has been handed
    tasks,                  \* the handlers in progress: where each is and what it holds
    vm,                     \* SmartContractVM: the contract program in execution, if any
    metrics                 \* SettlementProofSystem.metrics (ZkpMetrics), with history

nodeVars == <<node_id, bce_records, settlement_blocks, pending_records,
              proposed_blocks, active_rounds, current_block_number, finalized_blocks,
              rejected_blocks, round_clock, local_blocks, vote_msgs, odd_records>>

\* the node's state as one value, for the handlers below
Node ==
    [bce_records |-> bce_records, settlement_blocks |-> settlement_blocks,
     pending_records |-> pending_records, proposed_blocks |-> proposed_blocks,
     active_rounds |-> active_rounds, current_block_number |-> current_block_number,
     finalized_blocks |-> finalized_blocks, rejected_blocks |-> rejected_blocks,
     round_clock |-> round_clock, local_blocks |-> local_blocks]

SetNode(n) ==
    /\ bce_records' = n.bce_records
    /\ settlement_blocks' = n.settlement_blocks
    /\ pending_records' = n.pending_records
    /\ proposed_blocks' = n.proposed_blocks
    /\ active_rounds' = n.active_rounds
    /\ current_block_number' = n.current_block_number
    /\ finalized_blocks' = n.finalized_blocks
    /\ rejected_blocks' = n.rejected_blocks
    /\ round_clock' = n.round_clock
    /\ local_blocks' = n.local_blocks

\* the loop of finalize_settlement_block over block.record_ids: a listed record that
\* is in the pending pool is removed from it, mark_settled is tried (its error is
\* dropped) and the record is stored; a listed record not in the pool is skipped
RECURSIVE SettleRecords(_, _, _)
SettleRecords(n, record_ids, block_hash_str) ==
    IF record_ids = <<>> THEN n
    ELSE LET record_id == Head(record_ids)
         IN  IF record_id \in DOMAIN n.pending_records
             THEN LET record == MarkSettled(n.pending_records[record_id],
                                            block_hash_str).record
                  IN  SettleRecords(
                          [n EXCEPT !.pending_records = Remove(@, record_id),
                                    !.bce_records = StoreBceRecord(@, record)],
                          Tail(record_ids), block_hash_str)
             ELSE SettleRecords(n, Tail(record_ids), block_hash_str)

\* execute_settlement_smart_contracts and validate_settlement_calculation: both are
\* skipped by the code and return Ok
ExecuteSettlementSmartContracts(block) == TRUE
ValidateSettlementCalculation(block) == TRUE

\* finalize_settlement_block without the increment of current_block_number
FinalizeSettlementBlock_KeepsHeight(n, block_hash) ==
    IF block_hash \notin DOMAIN n.proposed_blocks
    THEN [node |-> n, ok |-> FALSE]
    ELSE
    LET block == n.proposed_blocks[block_hash]
        n1 == [n EXCEPT !.proposed_blocks = Remove(@, block_hash)]
        n2 == SettleRecords(n1, block.record_ids, HexEncode(block.block_hash))
    IN  [node |-> [n2 EXCEPT
                      !.settlement_blocks = StoreSettlementBlock(@, block),
                      !.finalized_blocks = @ \cup {block}],
         ok |-> TRUE]

\* finalize_settlement_block with the height set from the block's number instead of
\* incremented
FinalizeSettlementBlock_HeightFromBlock(n, block_hash) ==
    IF block_hash \notin DOMAIN n.proposed_blocks
    THEN [node |-> n, ok |-> FALSE]
    ELSE
    LET block == n.proposed_blocks[block_hash]
        n1 == [n EXCEPT !.proposed_blocks = Remove(@, block_hash)]
        n2 == SettleRecords(n1, block.record_ids, HexEncode(block.block_hash))
        n3 == [n2 EXCEPT !.current_block_number = block.block_number + 1]
    IN  [node |-> [n3 EXCEPT
                      !.settlement_blocks = StoreSettlementBlock(@, block),
                      !.finalized_blocks = @ \cup {block}],
         ok |-> TRUE]

\* finalize_settlement_block that takes a block it does not find among the proposed
\* blocks from the blocks it has finalized
FinalizeSettlementBlock_FromFinalized(n, block_hash) ==
    LET known == {b \in n.finalized_blocks : b.block_hash = block_hash}
    IN  IF block_hash \notin DOMAIN n.proposed_blocks /\ known = {}
        THEN [node |-> n, ok |-> FALSE]
        ELSE
        LET block == IF block_hash \in DOMAIN n.proposed_blocks
                     THEN n.proposed_blocks[block_hash]
                     ELSE CHOOSE b \in known : TRUE
            n1 == [n EXCEPT !.proposed_blocks =
                               [h \in DOMAIN @ \ {block_hash} |-> @[h]]]
            n2 == SettleRecords(n1, block.record_ids, HexEncode(block.block_hash))
            n3 == [n2 EXCEPT !.current_block_number = @ + 1]
        IN  [node |-> [n3 EXCEPT
                          !.settlement_blocks = StoreSettlementBlock(@, block),
                          !.finalized_blocks = @ \cup {block}],
             ok |-> TRUE]

\* finalize_settlement_block: the node after the call and whether it returned Ok
FinalizeSettlementBlock(n, block_hash) ==
    IF block_hash \notin DOMAIN n.proposed_blocks
    THEN [node |-> n, ok |-> FALSE]
    ELSE
    LET block == n.proposed_blocks[block_hash]
        n1 == [n EXCEPT !.proposed_blocks = Remove(@, block_hash)]
        n2 == SettleRecords(n1, block.record_ids, HexEncode(block.block_hash))
        n3 == [n2 EXCEPT !.current_block_number = @ + 1]
    IN  IF ~ExecuteSettlementSmartContracts(block) \/ ~ValidateSettlementCalculation(block)
        THEN [node |-> n3, ok |-> FALSE]
        ELSE [node |-> [n3 EXCEPT
                          !.settlement_blocks = StoreSettlementBlock(@, block),
                          !.finalized_blocks = @ \cup {block}],
              ok |-> TRUE]

\* the match on the ConsensusResult in process_consensus_vote and
\* process_block_proposal: finalize on approval, drop the proposed block on rejection
OnConsensusResult(n, res, block_hash) ==
    IF res.tag = "Finalized" /\ res.approved
    THEN FinalizeSettlementBlock(n, block_hash)
    ELSE IF res.tag = "Finalized" /\ ~res.approved
    THEN [node |-> [n EXCEPT
                      !.proposed_blocks =
                          IF block_hash \in DOMAIN @ THEN Remove(@, block_hash) ELSE @,
                      !.rejected_blocks =
                          IF block_hash \in DOMAIN n.proposed_blocks
                          THEN @ \cup {n.proposed_blocks[block_hash]} ELSE @],
          ok |-> TRUE]
    ELSE [node |-> n, ok |-> TRUE]

\* a handler's outcome: the node after the call, whether it returned Ok, and the
\* result or error the consensus engine gave it (None if the engine was not reached
\* or gave no error)
Outcome(node, ok, res) == [node |-> node, ok |-> ok, res |-> res]

\* process_consensus_vote
ProcessConsensusVote(n, validator_id, block_hash, approve) ==
    LET pv == ProcessVote(n.active_rounds, validator_id, block_hash, approve)
        out == OnConsensusResult([n EXCEPT !.active_rounds = pv.rounds],
                                 pv.res, block_hash)
    IN  IF pv.res.tag = "Err"
        THEN Outcome(n, FALSE, Some(pv.res))
        ELSE Outcome(out.node, out.ok, Some(pv.res))

\* create_settlement_block, called by the node `self_id`. The pool is drained into the block, the block is kept
\* in proposed_blocks under a fresh hash, a round is opened and the node's own
\* approve vote is processed.
CreateSettlementBlock(n, self_id) ==
    LET records == n.pending_records
        n1 == [n EXCEPT !.pending_records = EmptyMap]
    IN  IF DOMAIN records = {}
        THEN Outcome(n1, FALSE, None)
        ELSE
        LET record_ids == SeqOfSet(DOMAIN records)
            block == SettlementBlock(n.local_blocks + 1,
                                     LastBlockHash(n.settlement_blocks),
                                     n.current_block_number,
                                     CalculateSettlementSummary(
                                         [i \in 1..Len(record_ids) |->
                                             records[record_ids[i]]]),
                                     record_ids, Len(record_ids))
            n2 == [n1 EXCEPT !.proposed_blocks = Put(@, block.block_hash, block),
                             !.local_blocks = @ + 1]
            sc == StartConsensus(n2.active_rounds, block.block_hash, n2.round_clock)
        IN  IF sc.res.tag = "Err"
            THEN Outcome(n2, FALSE, Some(sc.res))
            ELSE
            LET n3 == [n2 EXCEPT !.active_rounds = sc.rounds, !.round_clock = @ + 1]
                pv == ProcessVote(n3.active_rounds, self_id, block.block_hash, TRUE)
                n4 == [n3 EXCEPT !.active_rounds = pv.rounds]
                fin == FinalizeSettlementBlock(n4, block.block_hash)
            IN  IF pv.res.tag = "Err"
                THEN Outcome(n3, FALSE, Some(pv.res))
                ELSE IF pv.res.tag = "Finalized" /\ pv.res.approved
                THEN Outcome(fin.node, fin.ok, Some(pv.res))
                ELSE IF pv.res.tag = "Finalized"
                THEN Outcome(OnConsensusResult(n4, pv.res, block.block_hash).node,
                             FALSE, Some(pv.res))
                ELSE IF pv.res.tag = "AlreadyFinalized"
                THEN Outcome(n4, FALSE, Some(pv.res))
                ELSE Outcome(n4, TRUE, Some(pv.res))

\* try_create_settlement_block
TryCreateSettlementBlock(n, self_id) ==
    IF Cardinality(DOMAIN n.pending_records) >= BlockThreshold
    THEN CreateSettlementBlock(n, self_id)
    ELSE Outcome(n, TRUE, None)

\* settlement_proof_system is set by start_node before the node serves requests
settlement_proof_system_set == TRUE

\* the proof_verified flag submit_bce_record leaves on the record. has_proof and
\* input_flag are the submitted record's zkp_proof.is_some() and proof_verified;
\* gen_ok, fallback_ok and verify_ok are the outcomes of generate_bce_privacy_proof,
\* of the fallback generate_proof and of verify_bce_privacy_proof.
ProofVerifiedAfterSubmit(enabled, has_proof, input_flag, gen_ok, fallback_ok, verify_ok) ==
    LET generate == enabled /\ ~has_proof
        proof_after_generate ==
            \/ has_proof
            \/ generate /\ gen_ok
            \/ generate /\ ~gen_ok /\ settlement_proof_system_set /\ fallback_ok
        flag_after_generate ==
            IF generate
            THEN gen_ok \/ (settlement_proof_system_set /\ fallback_ok)
            ELSE input_flag
    IN  IF proof_after_generate
        THEN settlement_proof_system_set /\ verify_ok
        ELSE flag_after_generate

\* submit_bce_record for a record that passes validate_bce_record and carries no bad
\* consortium signature (a record that fails either is refused before any write)
SubmitBceRecord(n, self_id, record) ==
    LET n1 == [n EXCEPT !.bce_records = StoreBceRecord(@, record),
                        !.pending_records = Put(@, record.record_id, record)]
    IN  TryCreateSettlementBlock(n1, self_id)

\* validate_proposed_block
ValidateProposedBlock(block) ==
    IF block.record_count = 0 THEN FALSE
    ELSE IF Len(block.record_ids) # block.record_count THEN FALSE
    ELSE TRUE

\* process_block_proposal
ProcessBlockProposal(n, self_id, proposed_block) ==
    LET n1 == [n EXCEPT !.proposed_blocks =
                            Put(@, proposed_block.block_hash, proposed_block)]
        sc == StartConsensus(n1.active_rounds, proposed_block.block_hash, n1.round_clock)
        n2 == IF sc.res.tag = "Err" THEN n1
              ELSE [n1 EXCEPT !.active_rounds = sc.rounds, !.round_clock = @ + 1]
        should_approve == ValidateProposedBlock(proposed_block)
        pv == ProcessVote(n2.active_rounds, self_id, proposed_block.block_hash,
                          should_approve)
        out == OnConsensusResult([n2 EXCEPT !.active_rounds = pv.rounds],
                                 pv.res, proposed_block.block_hash)
    IN  IF pv.res.tag = "Err"
        THEN Outcome(n2, FALSE, Some(pv.res))
        ELSE Outcome(out.node, out.ok, Some(pv.res))

(***************************************************************************)
(* The pipeline's specification: one node, its submitters and its peers.   *)
(***************************************************************************)
\* the outcomes of the proof steps of a submission; zkp_enabled is the node's
\* setting (set_zkp_enabled) when the record is submitted
ProofCases ==
    { [zkp_enabled |-> TRUE, has_proof |-> FALSE, input_flag |-> FALSE,
       gen_ok |-> TRUE, fallback_ok |-> FALSE, verify_ok |-> TRUE],
      [zkp_enabled |-> TRUE, has_proof |-> TRUE, input_flag |-> TRUE,
       gen_ok |-> TRUE, fallback_ok |-> FALSE, verify_ok |-> FALSE],
      [zkp_enabled |-> TRUE, has_proof |-> FALSE, input_flag |-> FALSE,
       gen_ok |-> FALSE, fallback_ok |-> FALSE, verify_ok |-> FALSE],
      [zkp_enabled |-> TRUE, has_proof |-> FALSE, input_flag |-> FALSE,
       gen_ok |-> FALSE, fallback_ok |-> TRUE, verify_ok |-> TRUE],
      [zkp_enabled |-> FALSE, has_proof |-> FALSE, input_flag |-> FALSE,
       gen_ok |-> TRUE, fallback_ok |-> FALSE, verify_ok |-> TRUE],
      [zkp_enabled |-> FALSE, has_proof |-> TRUE, input_flag |-> FALSE,
       gen_ok |-> TRUE, fallback_ok |-> FALSE, verify_ok |-> TRUE] }

IsPlain(record) == record.proof_verified /\ record.settlement_status = "Pending"

\* the records whose submission may be other than the plain case
OddRecordIds == {1}

\* record ids are names: a record new to the pool takes the least id the pool lacks
NextPoolId == CHOOSE i \in RecordIds \cup {BlockThreshold + 1} :
                 /\ i \notin DOMAIN pending_records
                 /\ \A j \in RecordIds : j < i => j \in DOMAIN pending_records

\* SimpleBlockchain::new on an empty data directory
InitNode ==
    /\ bce_records = EmptyMap
    /\ settlement_blocks = EmptyMap
    /\ pending_records = EmptyMap
    /\ proposed_blocks = EmptyMap
    /\ active_rounds = EmptyMap
    /\ current_block_number = 0
    /\ finalized_blocks = {}
    /\ rejected_blocks = {}
    /\ round_clock = 0
    /\ local_blocks = 0
    /\ vote_msgs = 0
    /\ odd_records = 0

\* the tasks that run handlers: an HTTP request handler (POST /api/v1/bce/submit)
\* and the loop that handles the messages of the network one after the other
TaskIds == {"api", "net"}

\* a task that runs no handler: it holds no lock and has nothing in hand
IdleTask ==
    [pc |-> "idle", block_hash |-> None, block |-> None, records |-> None,
     previous_hash |-> None, block_number |-> None, held |-> {}, took |-> None]

InitTasks == tasks = [t \in TaskIds |-> IdleTask]

\* no contract program is in execution
InitVm == vm = None

\* ZkpMetrics::default, the counters health_check reads. calls and returned_ok are
\* history: the calls of generate_proof and of verify_proof made so far, and those
\* of them that returned Ok.
InitMetrics ==
    metrics = [proofs_generated |-> 0, proofs_verified |-> 0,
               proofs_failed_generation |-> 0, proofs_failed_verification |-> 0,
               calls |-> [generate_proof |-> 0, verify_proof |-> 0],
               returned_ok |-> [generate_proof |-> 0, verify_proof |-> 0]]

InitEngine ==
    /\ last_result = None
    /\ last_op = None
    /\ timed_out = {}
    /\ cast_votes = EmptyMap
    /\ recast = FALSE

InitReplicas ==
    /\ ballot = EmptyMap
    /\ replica_rounds = EmptyMap
    /\ replica_cast = EmptyMap

engineVars == <<last_result, last_op, timed_out, cast_votes, recast>>
replicaVars == <<ballot, replica_rounds, replica_cast>>

\* the node is started as the validator tmobile-de
Init ==
    /\ node_id = "tmobile-de"
    /\ InitNode
    /\ InitEngine
    /\ InitTasks
    /\ InitVm
    /\ InitMetrics
    /\ InitReplicas

\* the values proof_verified takes at the end of the proof steps
ProofFlags ==
    { ProofVerifiedAfterSubmit(c.zkp_enabled, c.has_proof, c.input_flag,
                               c.gen_ok, c.fallback_ok, c.verify_ok) : c \in ProofCases }

\* the ids a submission carries: a record new to the pool, or a pooled record
\* submitted again (for a plain record that changes nothing)
SubmitIds == ({NextPoolId} \cap RecordIds) \cup (OddRecordIds \cap DOMAIN pending_records)

\* POST /api/v1/bce/submit: submit_bce_record
Submit ==
    \E record_id \in SubmitIds, status \in SettlementStatuses, flag \in ProofFlags :
        LET record == BceRecord(record_id, flag, status)
            out == SubmitBceRecord(Node, node_id, record)
        IN  /\ ~IsPlain(record) =>
                  odd_records < MaxOddRecords /\ record_id \in OddRecordIds
            /\ Cardinality(DOMAIN pending_records \cup {record_id}) >= BlockThreshold
                  => local_blocks < MaxLocalBlocks
            /\ SetNode(out.node)
            /\ odd_records' = IF IsPlain(record) THEN odd_records ELSE odd_records + 1
            /\ UNCHANGED <<node_id, vote_msgs, engineVars, replicaVars, tasks, vm, metrics>>

\* the validator ids vote messages carry: the consortium's, and one that is unknown
VoterIds == ValidatorIds \cup {"sp-node"}

\* NetworkMessage::Vote from a peer: process_consensus_vote. A vote that is refused
\* with an error leaves the node as it was.
ReceiveVote ==
    \E validator_id \in VoterIds \ {node_id}, block_hash \in BlockHashes,
       approve \in BOOLEAN :
        LET out == ProcessConsensusVote(Node, validator_id, block_hash, approve)
        IN  /\ vote_msgs < MaxVoteMsgs
            /\ out.node # Node
            /\ SetNode(out.node)
            /\ vote_msgs' = vote_msgs + 1
            /\ UNCHANGED <<node_id, odd_records, engineVars, replicaVars, tasks, vm, metrics>>

Next == Submit \/ ReceiveVote

vars == <<node_id, bce_records, settlement_blocks, pending_records,
          proposed_blocks, active_rounds, current_block_number, finalized_blocks,
          rejected_blocks, round_clock, local_blocks, vote_msgs, odd_records,
          last_result, last_op, timed_out, cast_votes, recast, ballot,
          replica_rounds, replica_cast, tasks, vm, metrics>>

Spec == Init /\ [][Next]_vars

(***************************************************************************)
(* The consensus engine on its own: SimpleConsensus driven through its     *)
(* public operations, as its unit test drives it.                          *)
(***************************************************************************)
EngineHashes == 1..MaxEngineHashes

pipelineVars == <<node_id, bce_records, settlement_blocks, pending_records,
                  proposed_blocks, current_block_number, finalized_blocks,
                  rejected_blocks, local_blocks, odd_records>>

\* start_consensus
EngineStart ==
    \E block_hash \in EngineHashes :
        LET out == StartConsensus(active_rounds, block_hash, round_clock + 1)
        IN  /\ round_clock < MaxEngineStarts
            /\ active_rounds' = out.rounds
            /\ round_clock' = IF out.res = Ok THEN round_clock + 1 ELSE round_clock
            /\ last_result' = Some(out.res)
            /\ last_op' = Some([op |-> "start_consensus", block_hash |-> block_hash])
            /\ cast_votes' = IF out.res = Ok
                             THEN Put(cast_votes, block_hash, EmptyMap)
                             ELSE cast_votes
            /\ UNCHANGED <<vote_msgs, recast, timed_out, pipelineVars, replicaVars, tasks, vm, metrics>>

\* process_vote
EngineVote ==
    \E validator_id \in VoterIds, block_hash \in EngineHashes, approve \in BOOLEAN :
        LET out == ProcessVote(active_rounds, validator_id, block_hash, approve)
            in_round == validator_id \in ValidatorIds /\ block_hash \in DOMAIN active_rounds
            again == in_round /\ validator_id \in DOMAIN cast_votes[block_hash]
        IN  /\ vote_msgs < MaxEngineVotes
            /\ active_rounds' = out.rounds
            /\ last_result' = Some(out.res)
            /\ last_op' = Some([op |-> "process_vote", validator_id |-> validator_id,
                                 block_hash |-> block_hash, approve |-> approve])
            /\ vote_msgs' = vote_msgs + 1
            /\ cast_votes' = IF in_round /\ ~again
                             THEN [cast_votes EXCEPT ![block_hash] =
                                      Put(@, validator_id, approve)]
                             ELSE cast_votes
            /\ recast' = (recast \/ again)
            /\ UNCHANGED <<round_clock, timed_out, pipelineVars, replicaVars, tasks, vm, metrics>>

\* cleanup_expired_rounds, called when the rounds started before `cutoff` have
\* outlived timeout_duration
EngineCleanup ==
    \E cutoff \in 1..(round_clock + 1) :
        /\ active_rounds' = CleanupExpiredRounds(active_rounds, cutoff)
        /\ last_result' = None
        /\ last_op' = Some([op |-> "cleanup_expired_rounds", cutoff |-> cutoff])
        /\ timed_out' = timed_out \cup
                            (DOMAIN active_rounds \
                                DOMAIN CleanupExpiredRounds(active_rounds, cutoff))
        /\ UNCHANGED <<round_clock, vote_msgs, cast_votes, recast,
                       pipelineVars, replicaVars, tasks, vm, metrics>>

NextConsensus == EngineStart \/ EngineVote \/ EngineCleanup

SpecConsensus == Init /\ [][NextConsensus]_vars

(***************************************************************************)
(* Two engines that are handed the votes of one ballot for one block hash, *)
(* each in an order of its own: two nodes of the consortium, or two runs.  *)
(***************************************************************************)
Replicas == {"a", "b"}
ReplicaHashes == {1}

InitOrder ==
    /\ node_id = "tmobile-de"
    /\ InitNode
    /\ InitEngine
    /\ InitTasks
    /\ InitVm
    /\ InitMetrics
    /\ ballot \in [ValidatorIds -> BOOLEAN]
    /\ replica_rounds = [r \in Replicas |-> EmptyMap]
    /\ replica_cast = [r \in Replicas |-> {}]

\* start_consensus on one engine
ReplicaStart ==
    \E r \in Replicas, block_hash \in ReplicaHashes :
        LET out == StartConsensus(replica_rounds[r], block_hash, 1)
        IN  /\ out.res = Ok
            /\ replica_rounds' = [replica_rounds EXCEPT ![r] = out.rounds]
            /\ UNCHANGED <<ballot, replica_cast, nodeVars, engineVars, tasks, vm, metrics>>

\* process_vote on one engine: the vote of a validator whose vote this engine has
\* not been handed since its round was opened
ReplicaVote ==
    \E r \in Replicas, block_hash \in ReplicaHashes, validator_id \in ValidatorIds :
        LET out == ProcessVote(replica_rounds[r], validator_id, block_hash,
                               ballot[validator_id])
        IN  /\ validator_id \notin replica_cast[r]
            /\ block_hash \in DOMAIN replica_rounds[r]
            /\ replica_rounds' = [replica_rounds EXCEPT ![r] = out.rounds]
            /\ replica_cast' = [replica_cast EXCEPT ![r] = @ \cup {validator_id}]
            /\ UNCHANGED <<ballot, nodeVars, engineVars, tasks, vm, metrics>>

NextOrder == ReplicaStart \/ ReplicaVote

SpecOrder == InitOrder /\ [][NextOrder]_vars

(***************************************************************************)
(* One proposal approved by four validators: ten records with proofs are   *)
(* submitted to a node, and each validator of a ballot of four approve     *)
(* votes votes once on the proposed block while the fifth stays silent. A  *)
(* node that is a validator casts its own vote when it proposes.           *)
(***************************************************************************)
NodeIds == {"tmobile-de", "sp-node"}

InitApproval ==
    /\ node_id \in NodeIds
    /\ InitNode
    /\ InitEngine
    /\ InitTasks
    /\ InitVm
    /\ InitMetrics
    /\ \E silent \in ValidatorIds \ {node_id} :
           ballot = [v \in ValidatorIds \ {silent} |-> TRUE]
    /\ replica_rounds = EmptyMap
    /\ replica_cast = EmptyMap

\* submit_bce_record with a record whose proof verifies; the tenth proposes the block
\* and, on a validator, casts the node's own approve vote
ApprovalSubmit ==
    LET record == BceRecord(NextPoolId, TRUE, "Pending")
        out == SubmitBceRecord(Node, node_id, record)
        block_hash == local_blocks + 1
    IN  /\ local_blocks = 0
        /\ SetNode(out.node)
        /\ cast_votes' = IF out.node.local_blocks = local_blocks THEN cast_votes
                         ELSE Put(cast_votes, block_hash,
                                  [v \in {node_id} \cap ValidatorIds |-> TRUE])
        /\ UNCHANGED <<node_id, vote_msgs, odd_records, last_result, last_op, timed_out, recast,
                       replicaVars, tasks, vm, metrics>>

\* NetworkMessage::Vote: the vote of a validator of the ballot on the proposed block
ApprovalVote ==
    \E block_hash \in DOMAIN cast_votes, validator_id \in DOMAIN ballot :
        LET out == ProcessConsensusVote(Node, validator_id, block_hash,
                                        ballot[validator_id])
        IN  /\ validator_id \notin DOMAIN cast_votes[block_hash]
            /\ SetNode(out.node)
            /\ vote_msgs' = vote_msgs + 1
            /\ cast_votes' = [cast_votes EXCEPT ![block_hash] =
                                 Put(@, validator_id, ballot[validator_id])]
            /\ UNCHANGED <<node_id, odd_records, last_result, last_op, timed_out, recast,
                           replicaVars, tasks, vm, metrics>>

NextApproval == ApprovalSubmit \/ ApprovalVote

SpecApproval == InitApproval /\ [][NextApproval]_vars

(***************************************************************************)
(* A node and its peers: the node is announced blocks (NewBlock) and is    *)
(* sent votes, and each handler's result is observed.                      *)
(***************************************************************************)
\* the summaries of announced blocks: of one record of 100 cents, of no record, and
\* one whose debit and credit differ
PeerSummary(total_records, debit, credit) ==
    [total_records |-> total_records, total_amount_cents |-> debit,
     operator_balances |->
        IF total_records = 0 THEN [o \in {} |-> 0]
        ELSE [o \in {"tmobile-de", "vodafone-uk"} |->
                 IF o = "tmobile-de" THEN 0 - debit ELSE credit]]

\* the bodies of announced blocks: well-formed, empty, with a record_count that
\* differs from the number of record_ids, and with a summary that does not balance
PeerBodies ==
    { [record_ids |-> <<1>>, record_count |-> 1,
       settlement_summary |-> PeerSummary(1, 100, 100)],
      [record_ids |-> <<>>, record_count |-> 0,
       settlement_summary |-> PeerSummary(0, 0, 0)],
      [record_ids |-> <<1>>, record_count |-> 2,
       settlement_summary |-> PeerSummary(1, 100, 100)],
      [record_ids |-> <<1>>, record_count |-> 1,
       settlement_summary |-> PeerSummary(1, 100, 50)] }

\* what the caller of a handler gets: Ok, or the error; a ConsensusError is passed
\* on in the BlockchainError
ReportedResult(out) ==
    IF out.ok THEN Some(Ok)
    ELSE IF out.res # None /\ out.res[1].tag = "Err" THEN out.res
    ELSE Some(Err("InvalidRecord"))

InitPeer ==
    /\ node_id \in NodeIds
    /\ InitNode
    /\ InitEngine
    /\ InitTasks
    /\ InitVm
    /\ InitMetrics
    /\ InitReplicas

\* NetworkMessage::NewBlock: process_block_proposal. hash_consistent tells whether
\* the block_hash of the message is the hash of its body; the handler never
\* computes that hash.
PeerBlock ==
    \E block_hash \in PeerHashes, body \in PeerBodies, hash_consistent \in BOOLEAN :
        LET block == SettlementBlock(block_hash, GenesisHash, current_block_number,
                                     body.settlement_summary,
                                     body.record_ids, body.record_count)
            out == ProcessBlockProposal(Node, node_id, block)
        IN  /\ SetNode(out.node)
            /\ last_op' = Some([op |-> "process_block_proposal",
                                 block_hash |-> block_hash, block |-> block,
                                 hash_consistent |-> hash_consistent])
            /\ last_result' = ReportedResult(out)
            /\ UNCHANGED <<node_id, vote_msgs, odd_records, timed_out, cast_votes,
                           recast, replicaVars, tasks, vm, metrics>>

\* NetworkMessage::Vote: process_consensus_vote
PeerVote ==
    \E validator_id \in VoterIds \ {node_id}, block_hash \in PeerHashes,
       approve \in BOOLEAN :
        LET out == ProcessConsensusVote(Node, validator_id, block_hash, approve)
        IN  /\ SetNode(out.node)
            /\ last_op' = Some([op |-> "process_consensus_vote",
                                 validator_id |-> validator_id,
                                 block_hash |-> block_hash, approve |-> approve])
            /\ last_result' = ReportedResult(out)
            /\ UNCHANGED <<node_id, vote_msgs, odd_records, timed_out, cast_votes,
                           recast, replicaVars, tasks, vm, metrics>>

NextPeer == PeerBlock \/ PeerVote

SpecPeer == InitPeer /\ [][NextPeer]_vars

(***************************************************************************)
(* The consensus engine over many blocks, one round after the other: a     *)
(* round is opened for the next block once the rounds before it are        *)
(* finalized, and the three validators of a ballot vote approve on it.     *)
(***************************************************************************)
InitSlots ==
    /\ node_id = "tmobile-de"
    /\ InitNode
    /\ InitEngine
    /\ InitTasks
    /\ InitVm
    /\ InitMetrics
    /\ \E S \in SUBSET ValidatorIds :
           /\ Cardinality(S) = min_validators
           /\ ballot = [v \in S |-> TRUE]
    /\ replica_rounds = EmptyMap
    /\ replica_cast = EmptyMap

\* block hashes are names: the next block takes the least hash without a round
NextSlotHash == Cardinality(DOMAIN active_rounds) + 1

\* start_consensus for the next block
SlotStart ==
    LET out == StartConsensus(active_rounds, NextSlotHash, round_clock + 1)
    IN  /\ NextSlotHash <= max_concurrent_rounds + 1
        /\ \A h \in DOMAIN active_rounds : active_rounds[h].finalized
        /\ active_rounds' = out.rounds
        /\ round_clock' = IF out.res = Ok THEN round_clock + 1 ELSE round_clock
        /\ last_result' = Some(out.res)
        /\ last_op' = Some([op |-> "start_consensus", block_hash |-> NextSlotHash])
        /\ UNCHANGED <<vote_msgs, cast_votes, recast, timed_out, pipelineVars,
                       replicaVars, tasks, vm, metrics>>

\* process_vote on the open round
SlotVote ==
    \E block_hash \in DOMAIN active_rounds, validator_id \in DOMAIN ballot :
        LET approve == ballot[validator_id]
            out == ProcessVote(active_rounds, validator_id, block_hash, approve)
        IN  /\ ~active_rounds[block_hash].finalized
            /\ validator_id \notin DOMAIN active_rounds[block_hash].votes
            /\ active_rounds' = out.rounds
            /\ last_result' = Some(out.res)
            /\ last_op' = Some([op |-> "process_vote", validator_id |-> validator_id,
                                 block_hash |-> block_hash, approve |-> approve])
            /\ UNCHANGED <<round_clock, vote_msgs, cast_votes, recast, timed_out,
                           pipelineVars, replicaVars, tasks, vm, metrics>>

NextSlots == SlotStart \/ SlotVote

SpecSlots == InitSlots /\ [][NextSlots]_vars

(***************************************************************************)
(* Replay of a finalization: in the scenario of one approved proposal,     *)
(* finalize_settlement_block is called again for a block it has finalized. *)
(***************************************************************************)
\* the replays of the scenario so far
Replays == IF last_op = None THEN 0 ELSE last_op[1].nth

\* finalize_settlement_block for the hash of a finalized block
FinalizeAgain ==
    \E b \in finalized_blocks :
        LET out == FinalizeSettlementBlock(Node, b.block_hash)
        IN  /\ Replays < MaxReplays
            /\ SetNode(out.node)
            /\ last_op' = Some([op |-> "finalize_settlement_block",
                                 block_hash |-> b.block_hash, nth |-> Replays + 1])
            /\ last_result' = Some(IF out.ok THEN Ok ELSE Err("InvalidRecord"))
            /\ UNCHANGED <<node_id, vote_msgs, odd_records, timed_out, cast_votes,
                           recast, replicaVars, tasks, vm, metrics>>

NextReplay == ApprovalSubmit \/ ApprovalVote \/ FinalizeAgain

SpecReplay == InitApproval /\ [][NextReplay]_vars

(***************************************************************************)
(* A chain of local proposals: records with proofs are submitted to a      *)
(* validator, which proposes a block with every tenth, and its peers vote  *)
(* approve on the open proposals in any order.                             *)
(***************************************************************************)
\* submit_bce_record with a record whose proof verifies
ChainSubmit ==
    LET record == BceRecord(NextPoolId, TRUE, "Pending")
        out == SubmitBceRecord(Node, node_id, record)
    IN  /\ NextPoolId \in RecordIds
        /\ local_blocks < MaxChainBlocks
        /\ SetNode(out.node)
        /\ UNCHANGED <<node_id, vote_msgs, odd_records, engineVars, replicaVars, tasks, vm, metrics>>

\* NetworkMessage::Vote: the approve vote of a peer that has not voted on the block
ChainVote ==
    \E validator_id \in ValidatorIds \ {node_id}, block_hash \in DOMAIN active_rounds :
        LET out == ProcessConsensusVote(Node, validator_id, block_hash, TRUE)
        IN  /\ ~active_rounds[block_hash].finalized
            /\ validator_id \notin DOMAIN active_rounds[block_hash].votes
            /\ SetNode(out.node)
            /\ vote_msgs' = vote_msgs + 1
            /\ UNCHANGED <<node_id, odd_records, engineVars, replicaVars, tasks, vm, metrics>>

NextChain == ChainSubmit \/ ChainVote

SpecChain == Init /\ [][NextChain]_vars

(***************************************************************************)
(* validate_bce_record. The usage, rate and charge fields are u32 and the   *)
(* charge is calculated in u32. Numbers are kept as their bytes, least      *)
(* significant first, so that values up to the product of two u32 and the   *)
(* wrap at 2^32 can be told apart.                                          *)
(***************************************************************************)
\* the value of a byte position and the bytes of a u32
ByteBase == 256
U32Bytes == 4
\* bytes that hold the sum of three products of two u32 without loss
WideBytes == 9

\* the bytes of a number below 2^31
RECURSIVE BytesOf(_, _)
BytesOf(n, width) ==
    IF width = 0 THEN <<>>
    ELSE <<n % ByteBase>> \o BytesOf(n \div ByteBase, width - 1)

ToWide(n) == BytesOf(n, WideBytes)

\* carries are passed on from the least significant position
RECURSIVE Carried(_, _)
Carried(columns, carry) ==
    IF columns = <<>> THEN <<>>
    ELSE LET v == Head(columns) + carry
         IN  <<v % ByteBase>> \o Carried(Tail(columns), v \div ByteBase)

RECURSIVE ColumnOfProduct(_, _, _, _)
ColumnOfProduct(a, b, k, i) ==
    IF i > k THEN 0
    ELSE a[i] * b[k - i + 1] + ColumnOfProduct(a, b, k, i + 1)

\* the sum and the product of two numbers of at most U32Bytes bytes, without loss
WideAdd(a, b) == Carried([k \in 1..WideBytes |-> a[k] + b[k]], 0)
WideMul(a, b) == Carried([k \in 1..WideBytes |-> ColumnOfProduct(a, b, k, 1)], 0)

\* a value as u32 arithmetic that wraps keeps it, and whether it fits a u32
WrapU32(a) == [k \in 1..WideBytes |-> IF k <= U32Bytes THEN a[k] ELSE 0]
FitsU32(a) == \A k \in (U32Bytes + 1)..WideBytes : a[k] = 0

RECURSIVE WideLess(_, _, _)
WideLess(a, b, k) ==
    IF k = 0 THEN FALSE
    ELSE IF a[k] # b[k] THEN a[k] < b[k]
    ELSE WideLess(a, b, k - 1)

\* a - b for a >= b
RECURSIVE Borrowed(_, _, _)
Borrowed(a, b, borrow) ==
    IF a = <<>> THEN <<>>
    ELSE LET v == Head(a) - Head(b) - borrow
         IN  IF v < 0
             THEN <<v + ByteBase>> \o Borrowed(Tail(a), Tail(b), 1)
             ELSE <<v>> \o Borrowed(Tail(a), Tail(b), 0)

\* the variance of validate_bce_record: the greater of the two minus the smaller
Variance(calculated_charge, wholesale_charge_cents) ==
    IF WideLess(wholesale_charge_cents, calculated_charge, WideBytes)
    THEN Borrowed(calculated_charge, wholesale_charge_cents, 0)
    ELSE Borrowed(wholesale_charge_cents, calculated_charge, 0)

\* "50 cents tolerance"
ChargeTolerance == 50

\* the charge of a record calculated without loss
ExactCharge(record) ==
    WideAdd(WideAdd(WideMul(ToWide(record.call_minutes), ToWide(record.call_rate_cents)),
                    WideMul(ToWide(record.data_mb), ToWide(record.data_rate_cents))),
            WideMul(ToWide(record.sms_count), ToWide(record.sms_rate_cents)))

\* BlockchainError::InvalidRecord and its message
InvalidRecord(message) == [tag |-> "Err", error |-> "InvalidRecord", message |-> message]
\* format!("Charge mismatch: calculated {}, actual {}", ...)
ChargeMismatch(calculated, actual) ==
    InvalidRecord(<<"Charge mismatch: calculated ", calculated, ", actual ", actual>>)
\* the thread panics with 'attempt to multiply (or add) with overflow'
Panic == [tag |-> "Panic"]

\* validate_bce_record. The products and sums are u32: in a build with overflow
\* checks an overflow panics, in a build without them the value wraps. All terms
\* are non-negative, so one of the operations overflows exactly if the charge
\* calculated without loss does not fit a u32.
ValidateBceRecord(record, overflow_checks) ==
    IF record.record_id = ""
    THEN InvalidRecord(<<"Missing record ID">>)
    ELSE IF record.imsi = ""
    THEN InvalidRecord(<<"Missing IMSI">>)
    ELSE IF overflow_checks /\ ~FitsU32(ExactCharge(record))
    THEN Panic
    ELSE LET calculated_charge == WrapU32(ExactCharge(record))
             wholesale_charge_cents == ToWide(record.wholesale_charge_cents)
             variance == Variance(calculated_charge, wholesale_charge_cents)
         IN  IF WideLess(ToWide(ChargeTolerance), variance, WideBytes)
             THEN ChargeMismatch(calculated_charge, wholesale_charge_cents)
             ELSE Ok

\* the records handed to validate_bce_record: the scenario of the spec (ten minutes
\* at fifteen cents), charges at the edge of the tolerance, and usage and rates
\* whose product passes 2^32
ValidatedRecords ==
    [record_id : {"", "r1"}, imsi : {"", "262011234567890"},
     call_minutes : {0, 10, 65536}, call_rate_cents : {15, 65536},
     data_mb : {0, 50}, data_rate_cents : {1},
     sms_count : {0, 1}, sms_rate_cents : {1},
     wholesale_charge_cents : {0, 99, 100, 150, 200, 201}]

\* submit_bce_record up to validate_bce_record, in either build
ValidateRecord ==
    \E record \in ValidatedRecords, overflow_checks \in BOOLEAN :
        /\ last_op' = Some([op |-> "validate_bce_record", record |-> record,
                             overflow_checks |-> overflow_checks])
        /\ last_result' = Some(ValidateBceRecord(record, overflow_checks))
        /\ UNCHANGED <<nodeVars, timed_out, cast_votes, recast, replicaVars, tasks, vm, metrics>>

NextValidate == ValidateRecord

SpecValidate == Init /\ [][NextValidate]_vars

(***************************************************************************)
(* The contract VM: SmartContractVM, src/src/zkp/smart_contracts/vm.rs.     *)
(* The values of the stack are u64. They are kept as their eight bytes,     *)
(* least significant first, so that wrapping_add, wrapping_sub and          *)
(* wrapping_mul wrap at 2^64.                                               *)
(***************************************************************************)
U64Bytes == 8
ToU64(n) == BytesOf(n, U64Bytes)

\* u64::wrapping_add, wrapping_sub and wrapping_mul: the carry or the borrow out of
\* the last byte is lost
WrappingAdd(a, b) == Carried([k \in 1..U64Bytes |-> a[k] + b[k]], 0)
WrappingSub(a, b) == Borrowed(a, b, 0)
WrappingMul(a, b) == Carried([k \in 1..U64Bytes |-> ColumnOfProduct(a, b, k, 1)], 0)

\* the instructions of the programs that are run here (enum Instruction): Push, the
\* jumps, and the instructions that carry no value
Push(value) == [op |-> "Push", value |-> ToU64(value)]
Jump(addr) == [op |-> "Jump", addr |-> addr]
JumpIf(addr) == [op |-> "JumpIf", addr |-> addr]
Instruction(op) == [op |-> op]
\* Load, Store, Log, ValidateConsortiumMember and CheckMultiPartySignatures carry a
\* storage key, a message, a member or a count. A key is Blake2bHash::from_bytes of
\* 32 equal bytes and is kept as that byte; Blake2bHash::zero() is the byte 0.
InstructionWith(op, arg) == [op |-> op, arg |-> arg]

\* the instructions that pop b, then a, and push a value calculated from them
BinaryOps == {"Add", "Sub", "Mul", "Eq", "Lt", "Gt"}
BinaryValue(op, a, b) ==
    CASE op = "Add" -> WrappingAdd(a, b)
      [] op = "Sub" -> WrappingSub(a, b)
      [] op = "Mul" -> WrappingMul(a, b)
      [] op = "Eq" -> IF a = b THEN ToU64(1) ELSE ToU64(0)
      [] op = "Lt" -> IF WideLess(a, b, U64Bytes) THEN ToU64(1) ELSE ToU64(0)
      [] op = "Gt" -> IF WideLess(b, a, U64Bytes) THEN ToU64(1) ELSE ToU64(0)

\* Result<u64>: Ok(value), and the errors of VmError that carry a value
OkOf(value) == [tag |-> "Ok", value |-> value]
InvalidInstruction(addr) == [tag |-> "Err", error |-> "InvalidInstruction", addr |-> addr]
StorageError(message) == [tag |-> "Err", error |-> "StorageError", message |-> message]

\* SmartContractVM::new. crypto_verifier is kept as the answer the verifier gives
\* for the proofs and signatures of this run: Ok(true), Ok(false) or Err. executed
\* is history: the number of calls of execute_instruction.
NewVm(bytecode, crypto_verifier) ==
    [stack |-> <<>>, pc |-> 0, storage |-> EmptyMap, logs |-> <<>>, bytecode |-> bytecode,
     gas_limit |-> Some(GasLimit), gas_used |-> 0, result |-> None, halted |-> FALSE,
     crypto_verifier |-> crypto_verifier, executed |-> 0]

\* SmartContractVM::with_storage
WithStorage(bytecode, initial_storage, crypto_verifier) ==
    [NewVm(bytecode, crypto_verifier) EXCEPT !.storage = initial_storage]

\* the members SmartContractVM::new lists
consortium_members == {"T-Mobile-DE", "Vodafone-UK", "Orange-FR", "Telefónica-ES", "SFR-FR"}

\* self.storage.get(&key).copied().unwrap_or(0), with the key made of the low byte
\* of a stack value
StoredAt(storage, key) == IF key \in DOMAIN storage THEN storage[key] ELSE ToU64(0)

\* Vec::last and the stack after Vec::pop
Top(stack) == stack[Len(stack)]
Popped(stack) == SubSeq(stack, 1, Len(stack) - 1)

\* Halt: self.result = self.stack.last().copied()
HaltResult_FirstPushed(stack) == IF stack = <<>> THEN None ELSE Some(Head(stack))

HaltResult(stack) == IF stack = <<>> THEN None ELSE Some(Top(stack))

\* execute_instruction: the VM after the call and the result of the call. An
\* instruction that fails has popped the operands it found before it failed.
ExecuteInstruction(m, now) ==
    LET instruction == m.bytecode[m.pc + 1]
        op == instruction.op
        len == Len(m.stack)
        Advance(stack) == [vm |-> [m EXCEPT !.stack = stack, !.pc = m.pc + 1], res |-> Ok]
        JumpTo(stack, addr) == [vm |-> [m EXCEPT !.stack = stack, !.pc = addr], res |-> Ok]
        Fail(stack, error) == [vm |-> [m EXCEPT !.stack = stack], res |-> error]
        \* VerifyProof and CheckSignature pop `operands` values, each the byte of a
        \* storage key. With a value of 0 in one of the slots they push 1 and return
        \* before self.pc += 1; otherwise the verifier decides.
        Verify(operands, error) ==
            IF len < operands
            THEN Fail(SubSeq(m.stack, 1, 0), Err("StackUnderflow"))
            ELSE LET rest == SubSeq(m.stack, 1, len - operands)
                     data == {StoredAt(m.storage, m.stack[i][1]) :
                                i \in (len - operands + 1)..len}
                 IN  IF ToU64(0) \in data
                     THEN JumpTo(Append(rest, ToU64(1)), m.pc)
                     ELSE CASE m.crypto_verifier = "true" ->
                                  Advance(Append(rest, ToU64(1)))
                            [] m.crypto_verifier = "false" ->
                                  Advance(Append(rest, ToU64(0)))
                            [] m.crypto_verifier = "error" ->
                                  Fail(Append(rest, ToU64(0)), Err(error))
    IN  CASE op = "Push" -> Advance(Append(m.stack, instruction.value))
          [] op = "Load" ->
                Advance(Append(m.stack, StoredAt(m.storage, instruction.arg)))
          [] op = "Store" ->
                IF len = 0 THEN Fail(m.stack, Err("StackUnderflow"))
                ELSE [vm |-> [m EXCEPT !.stack = Popped(m.stack), !.pc = m.pc + 1,
                                       !.storage = Put(@, instruction.arg, Top(m.stack))],
                      res |-> Ok]
          [] op = "Log" ->
                [vm |-> [m EXCEPT !.logs = Append(@, instruction.arg), !.pc = m.pc + 1],
                 res |-> Ok]
          [] op = "GetTimestamp" -> Advance(Append(m.stack, ToU64(now)))
          [] op = "ValidateConsortiumMember" ->
                Advance(Append(m.stack, IF instruction.arg \in consortium_members
                                        THEN ToU64(1) ELSE ToU64(0)))
          [] op = "CheckMultiPartySignatures" ->
                LET popped == IF instruction.arg < len THEN instruction.arg ELSE len
                    valid_count == Cardinality({i \in (len - popped + 1)..len :
                                                  m.stack[i] = ToU64(1)})
                IN  Advance(Append(SubSeq(m.stack, 1, len - popped),
                                   IF valid_count >= instruction.arg
                                   THEN ToU64(1) ELSE ToU64(0)))
          [] op = "VerifyProof" -> Verify(2, "ZkpVerificationFailed")
          [] op = "CheckSignature" -> Verify(3, "SignatureVerificationFailed")
          [] op = "Pop" ->
                IF len = 0 THEN Fail(m.stack, Err("StackUnderflow"))
                ELSE Advance(Popped(m.stack))
          [] op = "Dup" ->
                IF len = 0 THEN Fail(m.stack, Err("StackUnderflow"))
                ELSE Advance(Append(m.stack, Top(m.stack)))
          [] op = "Swap" ->
                IF len < 2 THEN Fail(m.stack, Err("StackUnderflow"))
                ELSE Advance(SubSeq(m.stack, 1, len - 2)
                             \o <<m.stack[len], m.stack[len - 1]>>)
          [] op \in BinaryOps ->
                IF len = 0 THEN Fail(m.stack, Err("StackUnderflow"))
                ELSE IF len = 1 THEN Fail(Popped(m.stack), Err("StackUnderflow"))
                ELSE Advance(Append(SubSeq(m.stack, 1, len - 2),
                                    BinaryValue(op, m.stack[len - 1], m.stack[len])))
          [] op = "Jump" ->
                IF instruction.addr >= Len(m.bytecode)
                THEN Fail(m.stack, InvalidInstruction(instruction.addr))
                ELSE JumpTo(m.stack, instruction.addr)
          [] op = "JumpIf" ->
                IF len = 0 THEN Fail(m.stack, Err("StackUnderflow"))
                ELSE IF Top(m.stack) = ToU64(0) THEN Advance(Popped(m.stack))
                ELSE IF instruction.addr >= Len(m.bytecode)
                THEN Fail(Popped(m.stack), InvalidInstruction(instruction.addr))
                ELSE JumpTo(Popped(m.stack), instruction.addr)
          [] op = "Halt" ->
                [vm |-> [m EXCEPT !.result = HaltResult(m.stack), !.halted = TRUE],
                 res |-> Ok]

\* the values the programs push and the addresses they jump to: to the start,
\* forward, and past the end of every program
PushedValues == {5, 10}
JumpTargets == {0, 2, MaxProgramLen}

Instructions ==
    {Push(value) : value \in PushedValues}
    \cup {Instruction(op) : op \in {"Pop", "Dup", "Swap", "Halt"} \cup BinaryOps}
    \cup {Jump(addr) : addr \in JumpTargets}
    \cup {JumpIf(addr) : addr \in JumpTargets}

\* the programs of n instructions
Programs(n) == [1..n -> Instructions]

\* chrono::Utc::now().timestamp(): the seconds GetTimestamp can read; no other
\* instruction reads the clock
Timestamps == {1700000000, 1700000001}
ClockReads(instruction) == IF instruction.op = "GetTimestamp" THEN Timestamps ELSE {0}

\* execute: the gas check at the head of the loop
GasExceeded_OnePast(m) == m.gas_limit # None /\ m.gas_used > m.gas_limit[1]

GasExceeded(m) == m.gas_limit # None /\ m.gas_used >= m.gas_limit[1]

\* a caller builds the VM for a program (SmartContractVM::new) and calls execute
VmNew ==
    /\ vm = None
    /\ \E n \in 1..MaxProgramLen : \E bytecode \in Programs(n) :
        /\ vm' = Some(NewVm(bytecode, "true"))
        /\ last_op' = Some([op |-> "execute", bytecode |-> bytecode])
        /\ UNCHANGED <<nodeVars, last_result, timed_out, cast_votes, recast,
                       replicaVars, tasks, metrics>>

\* execute: one pass of the loop
VmStep ==
    /\ vm # None
    /\ last_result = None
    /\ LET m == vm[1]
       IN  /\ ~m.halted
           /\ m.pc < Len(m.bytecode)
           /\ IF GasExceeded(m)
              THEN /\ last_result' = Some(StorageError("Gas limit exceeded"))
                   /\ UNCHANGED vm
              ELSE \E now \in ClockReads(m.bytecode[m.pc + 1]) :
                     LET call == ExecuteInstruction(m, now)
                         after == [call.vm EXCEPT !.executed = @ + 1]
                     IN  IF call.res = Ok
                         THEN /\ vm' = Some([after EXCEPT !.gas_used = @ + 1])
                              /\ UNCHANGED last_result
                         ELSE /\ vm' = Some(after)
                              /\ last_result' = Some(call.res)
    /\ UNCHANGED <<nodeVars, last_op, timed_out, cast_votes, recast, replicaVars, tasks, metrics>>

\* execute: after the loop
VmReturn ==
    /\ vm # None
    /\ last_result = None
    /\ LET m == vm[1]
       IN  /\ m.halted \/ m.pc >= Len(m.bytecode)
           /\ last_result' =
                Some(IF m.halted
                     THEN OkOf(IF m.result = None THEN ToU64(0) ELSE m.result[1])
                     ELSE Err("ExecutionHalted"))
    /\ UNCHANGED <<nodeVars, last_op, timed_out, cast_votes, recast, replicaVars,
                   tasks, vm, metrics>>

NextVm == VmNew \/ VmStep \/ VmReturn

SpecVm == Init /\ [][NextVm]_vars

\* A program run twice from the same initial storage. The programs read and
\* write the storage, log, read the clock and verify proofs and signatures.
RunInstructions ==
    {Push(1), Instruction("Dup"), Instruction("Halt"), Instruction("GetTimestamp"),
     Instruction("VerifyProof"), Instruction("CheckSignature"),
     InstructionWith("Load", 1), InstructionWith("Store", 1),
     InstructionWith("Log", "log")}
InitialStorages == {EmptyMap, Put(EmptyMap, 1, ToU64(7))}

\* the first execution: SmartContractVM::with_storage and execute
RunNew ==
    /\ vm = None
    /\ \E n \in 1..MaxProgramLen : \E bytecode \in [1..n -> RunInstructions] :
       \E initial_storage \in InitialStorages :
       \E crypto_verifier \in {"true", "false", "error"} :
        /\ vm' = Some(WithStorage(bytecode, initial_storage, crypto_verifier))
        /\ last_op' = Some([op |-> "execute", bytecode |-> bytecode,
                             initial_storage |-> initial_storage,
                             crypto_verifier |-> crypto_verifier, first |-> None])
        /\ UNCHANGED <<nodeVars, last_result, timed_out, cast_votes, recast,
                       replicaVars, tasks, metrics>>

\* the second execution of the same bytecode from the same initial storage; what
\* the first one gave is kept in last_op
RunAgain ==
    /\ vm # None
    /\ last_result # None
    /\ last_op[1].first = None
    /\ vm' = Some(WithStorage(last_op[1].bytecode, last_op[1].initial_storage,
                              last_op[1].crypto_verifier))
    /\ last_op' = Some([last_op[1] EXCEPT !.first =
                          Some([result |-> last_result[1], logs |-> vm[1].logs,
                                storage |-> vm[1].storage])])
    /\ last_result' = None
    /\ UNCHANGED <<nodeVars, timed_out, cast_votes, recast, replicaVars, tasks, metrics>>

NextRuns == RunNew \/ VmStep \/ VmReturn \/ RunAgain

SpecRuns == Init /\ [][NextRuns]_vars

(***************************************************************************)
(* The proof system: SettlementProofSystem, src/src/zkp/settlement_proofs.rs. *)
(* Its metrics and the health status calculated from them.                  *)
(***************************************************************************)
\* the call of kind `op` is counted in the history
Called(op, returned_ok) ==
    [metrics EXCEPT !.calls[op] = @ + 1,
                    !.returned_ok[op] = IF returned_ok THEN @ + 1 ELSE @]

\* generate_proof: Groth16 proves and the proof is serialized, or one of the two
\* fails
GenerateProof ==
    /\ metrics.calls.generate_proof < MaxProofCalls
    /\ \E outcome \in {"proved", "SerializationFailed", "ProofGenFailed"} :
        /\ metrics' =
              IF outcome = "proved"
              THEN [Called("generate_proof", TRUE) EXCEPT !.proofs_generated = @ + 1]
              ELSE [Called("generate_proof", FALSE) EXCEPT
                        !.proofs_failed_generation = @ + 1]
        /\ last_op' = Some([op |-> "generate_proof", outcome |-> outcome])
        /\ last_result' = Some(IF outcome = "proved" THEN Ok ELSE Err(outcome))
    /\ UNCHANGED <<nodeVars, timed_out, cast_votes, recast, replicaVars, tasks, vm>>

\* verify_proof: the proof or its public inputs cannot be deserialized and the call
\* returns before it has taken the metrics, or Groth16 verification gives a verdict
\* (valid or not), or it fails
VerifyProof ==
    /\ metrics.calls.verify_proof < MaxProofCalls
    /\ \E outcome \in {"DeserializationFailed", "valid", "invalid", "VerificationFailed"} :
        /\ metrics' =
              CASE outcome = "DeserializationFailed" -> Called("verify_proof", FALSE)
                [] outcome \in {"valid", "invalid"} ->
                      [Called("verify_proof", TRUE) EXCEPT !.proofs_verified = @ + 1]
                [] outcome = "VerificationFailed" ->
                      [Called("verify_proof", FALSE) EXCEPT
                           !.proofs_failed_verification = @ + 1]
        /\ last_op' = Some([op |-> "verify_proof", outcome |-> outcome])
        /\ last_result' = Some(IF outcome \in {"valid", "invalid"}
                                THEN OkOf(outcome = "valid") ELSE Err(outcome))
    /\ UNCHANGED <<nodeVars, timed_out, cast_votes, recast, replicaVars, tasks, vm>>

\* succeeded as f64 / (succeeded + failed) as f64 * 100.0 >= percent, and 100.0
\* when nothing was counted. For the counts reached here the f64 value compares
\* with the percentage as the exact quotient does.
SuccessRateAtLeast(succeeded, failed, percent) ==
    \/ succeeded + failed = 0
    \/ succeeded * 100 >= percent * (succeeded + failed)

\* health_check: health_status
HealthStatus(m) ==
    IF /\ SuccessRateAtLeast(m.proofs_generated, m.proofs_failed_generation, 95)
       /\ SuccessRateAtLeast(m.proofs_verified, m.proofs_failed_verification, 95)
    THEN "healthy"
    ELSE IF /\ SuccessRateAtLeast(m.proofs_generated, m.proofs_failed_generation, 80)
            /\ SuccessRateAtLeast(m.proofs_verified, m.proofs_failed_verification, 80)
    THEN "degraded"
    ELSE "unhealthy"

HealthCheck ==
    /\ last_op' = Some([op |-> "health_check"])
    /\ last_result' = Some(HealthStatus(metrics))
    /\ UNCHANGED <<nodeVars, timed_out, cast_votes, recast, replicaVars, tasks, vm,
                   metrics>>

NextHealth == GenerateProof \/ VerifyProof \/ HealthCheck

SpecHealth == Init /\ [][NextHealth]_vars

(***************************************************************************)
(* The standard contracts of SettlementContractCompiler, run by the VM.     *)
(***************************************************************************)
\* Instruction::Load(Blake2bHash::zero()) and Instruction::Log
LoadZero == InstructionWith("Load", 0)
Log(message) == InstructionWith("Log", message)

\* compile_5party_bce_validator
compile_5party_bce_validator ==
    << Log("5-Party BCE Batch Validator Started"),
       Push(0), LoadZero,
       Push(1), LoadZero,
       Push(2), LoadZero,
       Instruction("VerifyProof"),
       JumpIf(25),
       Log("5-Party privacy proof verification failed"),
       Push(0),
       Instruction("Halt"),
       Log("5-Party privacy proof verified"),
       Push(3), LoadZero,
       InstructionWith("ValidateConsortiumMember", "T-Mobile-DE"),
       Push(4), LoadZero,
       InstructionWith("ValidateConsortiumMember", "Vodafone-UK"),
       Instruction("Add"),
       Push(2),
       Instruction("Eq"),
       JumpIf(45),
       Log("Invalid consortium member"),
       Push(0),
       Instruction("Halt"),
       Push(5), LoadZero,
       Push(6), LoadZero,
       Instruction("CheckSignature"),
       Instruction("Swap"),
       Instruction("CheckSignature"),
       Instruction("Add"),
       Push(2),
       Instruction("Eq"),
       JumpIf(60),
       Log("Network signature verification failed"),
       Push(0),
       Instruction("Halt"),
       Log("5-Party BCE batch validated successfully"),
       Push(1),
       Instruction("Halt") >>

\* compile_5party_settlement_executor
compile_5party_settlement_executor ==
    << Log("5-Party Settlement Executor Started"),
       Push(0), LoadZero,
       Instruction("VerifyProof"),
       JumpIf(15),
       Log("5-Party settlement proof verification failed"),
       Push(0),
       Instruction("Halt"),
       Log("5-Party settlement proof verified"),
       Push(1), LoadZero, Instruction("CheckSignature"),
       Push(2), LoadZero, Instruction("CheckSignature"),
       Push(3), LoadZero, Instruction("CheckSignature"),
       Push(4), LoadZero, Instruction("CheckSignature"),
       Push(5), LoadZero, Instruction("CheckSignature"),
       InstructionWith("CheckMultiPartySignatures", 3),
       JumpIf(45),
       Log("Insufficient consortium signatures (need 3/5)"),
       Push(0),
       Instruction("Halt"),
       Log("Executing 5-party settlement transfer"),
       InstructionWith("Load", 30),
       InstructionWith("Load", 31),
       InstructionWith("Load", 32),
       Instruction("GetTimestamp"),
       InstructionWith("Store", 33),
       Log("5-Party settlement executed successfully"),
       Push(1),
       Instruction("Halt") >>

StandardContracts == {compile_5party_bce_validator, compile_5party_settlement_executor}

\* the storage a contract is started with: nothing, or data in every slot the
\* contracts read, with the slot zero naming slot 7 or slot 1
ContractStorages ==
    {EmptyMap} \cup {[key \in (0..7) \cup (30..32) |-> ToU64(IF key = 0 THEN zero ELSE 7)] :
                       zero \in {1, 7}}

\* execute_smart_contract: SmartContractVM::with_storage for a standard contract,
\* with the gas limit of SmartContractVM::new
ContractNew ==
    /\ vm = None
    /\ \E bytecode \in StandardContracts :
       \E initial_storage \in ContractStorages :
       \E crypto_verifier \in {"true", "false", "error"} :
        /\ vm' = Some([WithStorage(bytecode, initial_storage, crypto_verifier)
                          EXCEPT !.gas_limit = Some(gas_limit)])
        /\ last_op' = Some([op |-> "execute_smart_contract", bytecode |-> bytecode,
                             initial_storage |-> initial_storage])
        /\ UNCHANGED <<nodeVars, last_result, timed_out, cast_votes, recast,
                       replicaVars, tasks, metrics>>

NextContracts == ContractNew \/ VmStep \/ VmReturn

SpecContracts == Init /\ [][NextContracts]_vars

(***************************************************************************)
(* The handlers step by step. A request handler and the network loop run   *)
(* as two tasks of the executor; each step is one lock scope or one store  *)
(* call of a handler, and the tasks interleave between steps. A lock taken *)
(* and released within a scope is held for that step only; the consensus   *)
(* lock of create_settlement_block is held while its match arms run.       *)
(***************************************************************************)
\* the order in which the locks of the pipeline are meant to be taken
LockOrder == <<"pending", "proposed", "consensus", "height">>
LockRank(lock) == CHOOSE i \in 1..Len(LockOrder) : LockOrder[i] = lock

\* task t takes `lock`: what it held when it took it is kept with the lock
Take(t, lock) == Some([held |-> tasks[t].held, lock |-> lock])

\* a lock is free for task t when no other task holds it across steps
LockFree(t, lock) == \A u \in TaskIds \ {t} : lock \notin tasks[u].held

\* the handler of task t returns: its guards are dropped
Return(t, took) == [IdleTask EXCEPT !.took = took]

\* where a handler goes with the result of process_vote on `block_hash`; `held` is
\* what it holds while it acts on the result
AfterVote(t, res, block_hash, held) ==
    IF res.tag = "Finalized" /\ res.approved
    THEN [IdleTask EXCEPT !.pc = "fin_remove", !.block_hash = Some(block_hash),
                          !.held = held, !.took = Take(t, "consensus")]
    ELSE IF res.tag = "Finalized"
    THEN [IdleTask EXCEPT !.pc = "drop_rejected", !.block_hash = Some(block_hash),
                          !.held = held, !.took = Take(t, "consensus")]
    ELSE Return(t, Take(t, "consensus"))

\* submit_bce_record up to the insert into the pool, for a record whose proof verifies
TaskInsert ==
    LET record == BceRecord(NextPoolId, TRUE, "Pending")
    IN  /\ tasks["api"].pc = "idle"
        /\ NextPoolId \in RecordIds
        /\ local_blocks < MaxTaskBlocks
        /\ SetNode([Node EXCEPT !.bce_records = StoreBceRecord(@, record),
                                !.pending_records = Put(@, record.record_id, record)])
        /\ tasks' = [tasks EXCEPT !["api"] =
                        [IdleTask EXCEPT !.pc = "count", !.took = Take("api", "pending")]]
        /\ UNCHANGED <<node_id, vote_msgs, odd_records, engineVars, replicaVars, vm, metrics>>

\* try_create_settlement_block: the size of the pool is read
TaskCount ==
    /\ tasks["api"].pc = "count"
    /\ tasks' = [tasks EXCEPT !["api"] =
                    IF Cardinality(DOMAIN pending_records) >= BlockThreshold
                    THEN [IdleTask EXCEPT !.pc = "drain", !.took = Take("api", "pending")]
                    ELSE Return("api", Take("api", "pending"))]
    /\ UNCHANGED <<nodeVars, engineVars, replicaVars, vm, metrics>>

\* create_settlement_block: the pool is drained
TaskDrain ==
    /\ tasks["api"].pc = "drain"
    /\ SetNode([Node EXCEPT !.pending_records = EmptyMap])
    /\ tasks' = [tasks EXCEPT !["api"] =
                    IF DOMAIN pending_records = {}
                    THEN Return("api", Take("api", "pending"))
                    ELSE [IdleTask EXCEPT !.pc = "read_prev",
                                          !.records = Some(pending_records),
                                          !.took = Take("api", "pending")]]
    /\ UNCHANGED <<node_id, vote_msgs, odd_records, engineVars, replicaVars, vm, metrics>>

\* create_settlement_block: the hash of the last stored block is read
TaskReadPrev ==
    /\ tasks["api"].pc = "read_prev"
    /\ tasks' = [tasks EXCEPT !["api"] =
                    [@ EXCEPT !.pc = "read_height",
                              !.previous_hash = Some(LastBlockHash(settlement_blocks))]]
    /\ UNCHANGED <<nodeVars, engineVars, replicaVars, vm, metrics>>

\* create_settlement_block: the height is read
TaskReadHeight ==
    /\ tasks["api"].pc = "read_height"
    /\ tasks' = [tasks EXCEPT !["api"] =
                    [@ EXCEPT !.pc = "propose",
                              !.block_number = Some(current_block_number),
                              !.took = Take("api", "height")]]
    /\ UNCHANGED <<nodeVars, engineVars, replicaVars, vm, metrics>>

\* create_settlement_block: the block is built, hashed and kept in proposed_blocks
TaskPropose ==
    LET me == tasks["api"]
        record_ids == SeqOfSet(DOMAIN me.records[1])
        block == SettlementBlock(local_blocks + 1, me.previous_hash[1],
                                 me.block_number[1],
                                 CalculateSettlementSummary(
                                     [i \in 1..Len(record_ids) |->
                                         me.records[1][record_ids[i]]]),
                                 record_ids, Len(record_ids))
    IN  /\ me.pc = "propose"
        /\ SetNode([Node EXCEPT !.proposed_blocks = Put(@, block.block_hash, block),
                                !.local_blocks = @ + 1])
        /\ tasks' = [tasks EXCEPT !["api"] =
                        [IdleTask EXCEPT !.pc = "start",
                                         !.block_hash = Some(block.block_hash),
                                         !.took = Take("api", "proposed")]]
        /\ UNCHANGED <<node_id, vote_msgs, odd_records, engineVars, replicaVars, vm, metrics>>

\* create_settlement_block: the round is opened; the block and the node's vote are
\* then sent to the peers
TaskStart ==
    LET me == tasks["api"]
        sc == StartConsensus(active_rounds, me.block_hash[1], round_clock)
    IN  /\ me.pc = "start"
        /\ LockFree("api", "consensus")
        /\ SetNode(IF sc.res.tag = "Err" THEN Node
                   ELSE [Node EXCEPT !.active_rounds = sc.rounds, !.round_clock = @ + 1])
        /\ tasks' = [tasks EXCEPT !["api"] =
                        IF sc.res.tag = "Err"
                        THEN Return("api", Take("api", "consensus"))
                        ELSE [me EXCEPT !.pc = "own_vote",
                                        !.took = Take("api", "consensus")]]
        /\ UNCHANGED <<node_id, vote_msgs, odd_records, engineVars, replicaVars, vm, metrics>>

\* create_settlement_block: the node's own vote is processed under the consensus
\* lock, which stays held while the result is acted on
TaskOwnVote ==
    LET me == tasks["api"]
        pv == ProcessVote(active_rounds, node_id, me.block_hash[1], TRUE)
    IN  /\ me.pc = "own_vote"
        /\ LockFree("api", "consensus")
        /\ SetNode([Node EXCEPT !.active_rounds = pv.rounds])
        /\ tasks' = [tasks EXCEPT !["api"] =
                        AfterVote("api", pv.res, me.block_hash[1], {"consensus"})]
        /\ UNCHANGED <<node_id, vote_msgs, odd_records, engineVars, replicaVars, vm, metrics>>

\* NetworkMessage::Vote: process_consensus_vote takes the consensus lock for
\* process_vote and drops it before it acts on the result. A vote the engine
\* refuses changes nothing.
NetVote ==
    \E validator_id \in ValidatorIds \ {node_id}, block_hash \in DOMAIN active_rounds,
       approve \in BOOLEAN :
        LET pv == ProcessVote(active_rounds, validator_id, block_hash, approve)
        IN  /\ tasks["net"].pc = "idle"
            /\ LockFree("net", "consensus")
            /\ vote_msgs < MaxTaskVotes
            /\ pv.res.tag # "Err"
            /\ SetNode([Node EXCEPT !.active_rounds = pv.rounds])
            /\ vote_msgs' = vote_msgs + 1
            /\ tasks' = [tasks EXCEPT !["net"] = AfterVote("net", pv.res, block_hash, {})]
            /\ UNCHANGED <<node_id, odd_records, engineVars, replicaVars, vm, metrics>>

\* Finalized{approved: false}: the proposed block is dropped
DropRejected(t) ==
    LET block_hash == tasks[t].block_hash[1]
    IN  /\ tasks[t].pc = "drop_rejected"
        /\ SetNode(OnConsensusResult(Node, Finalized(FALSE), block_hash).node)
        /\ tasks' = [tasks EXCEPT ![t] = Return(t, Take(t, "proposed"))]
        /\ UNCHANGED <<node_id, vote_msgs, odd_records, engineVars, replicaVars, vm, metrics>>

\* finalize_settlement_block: the block is taken out of proposed_blocks
FinalizeRemove(t) ==
    LET me == tasks[t]
        block_hash == me.block_hash[1]
    IN  /\ me.pc = "fin_remove"
        /\ SetNode(IF block_hash \in DOMAIN proposed_blocks
                   THEN [Node EXCEPT !.proposed_blocks = Remove(@, block_hash)]
                   ELSE Node)
        /\ tasks' = [tasks EXCEPT ![t] =
                        IF block_hash \in DOMAIN proposed_blocks
                        THEN [me EXCEPT !.pc = "fin_settle",
                                        !.block = Some(proposed_blocks[block_hash]),
                                        !.took = Take(t, "proposed")]
                        ELSE Return(t, Take(t, "proposed"))]
        /\ UNCHANGED <<node_id, vote_msgs, odd_records, engineVars, replicaVars, vm, metrics>>

\* finalize_settlement_block: the listed records that are in the pool are settled
FinalizeSettle(t) ==
    LET me == tasks[t]
        block == me.block[1]
    IN  /\ me.pc = "fin_settle"
        /\ SetNode(SettleRecords(Node, block.record_ids, HexEncode(block.block_hash)))
        /\ tasks' = [tasks EXCEPT ![t] =
                        [me EXCEPT !.pc = "fin_height", !.took = Take(t, "pending")]]
        /\ UNCHANGED <<node_id, vote_msgs, odd_records, engineVars, replicaVars, vm, metrics>>

\* finalize_settlement_block: the height is incremented
FinalizeHeight(t) ==
    LET me == tasks[t]
    IN  /\ me.pc = "fin_height"
        /\ SetNode([Node EXCEPT !.current_block_number = @ + 1])
        /\ tasks' = [tasks EXCEPT ![t] =
                        [me EXCEPT !.pc = "fin_store", !.took = Take(t, "height")]]
        /\ UNCHANGED <<node_id, vote_msgs, odd_records, engineVars, replicaVars, vm, metrics>>

\* finalize_settlement_block: the contract and calculation steps (both skipped by
\* the code) and the store of the block; the handler returns
FinalizeStore(t) ==
    LET me == tasks[t]
        block == me.block[1]
    IN  /\ me.pc = "fin_store"
        /\ SetNode(IF ExecuteSettlementSmartContracts(block)
                      /\ ValidateSettlementCalculation(block)
                   THEN [Node EXCEPT
                            !.settlement_blocks = StoreSettlementBlock(@, block),
                            !.finalized_blocks = @ \cup {block}]
                   ELSE Node)
        /\ tasks' = [tasks EXCEPT ![t] = Return(t, me.took)]
        /\ UNCHANGED <<node_id, vote_msgs, odd_records, engineVars, replicaVars, vm, metrics>>

NextTasks ==
    \/ TaskInsert \/ TaskCount \/ TaskDrain \/ TaskReadPrev \/ TaskReadHeight
    \/ TaskPropose \/ TaskStart \/ TaskOwnVote \/ NetVote
    \/ \E t \in TaskIds : DropRejected(t)
    \/ \E t \in TaskIds : FinalizeRemove(t)
    \/ \E t \in TaskIds : FinalizeSettle(t)
    \/ \E t \in TaskIds : FinalizeHeight(t)
    \/ \E t \in TaskIds : FinalizeStore(t)

SpecTasks == Init /\ [][NextTasks]_vars

(***************************************************************************)
(* The locks of the pipeline. Each handler is the sequence of its lock      *)
(* requests and releases (tokio RwLock: pending_records, proposed_blocks,   *)
(* consensus, current_block_number); the data is left out and the branch a  *)
(* handler takes is chosen when it starts. Handlers run as concurrent tasks *)
(* and a request waits until the lock can be granted.                       *)
(***************************************************************************)
LockTaskIds == 1..MaxLockTasks

\* lock.write().await or lock.read().await, and the end of the guard's scope
Acquire(lock, mode) == [op |-> "acquire", lock |-> lock, mode |-> mode]
Release(lock) == [op |-> "release", lock |-> lock]
\* { let guard = lock.write().await; ... }
Scoped(lock, mode) == <<Acquire(lock, mode), Release(lock)>>

\* finalize_settlement_block: proposed_blocks, pending_records and
\* current_block_number, one scope after the other
FinalizeLocks ==
    Scoped("proposed", "write") \o Scoped("pending", "write") \o Scoped("height", "write")

\* the arms of the match on the result of process_vote; an error of process_vote
\* returns at once
VoteOutcomes == {"approved", "rejected", "in_progress", "error"}
AfterVoteLocks(outcome) ==
    IF outcome = "approved" THEN FinalizeLocks
    ELSE IF outcome = "rejected" THEN Scoped("proposed", "write")
    ELSE <<>>

\* submit_bce_record: the insert, the count of try_create_settlement_block and,
\* at the threshold, create_settlement_block, whose match arms run inside the
\* scope of the consensus guard
SubmitLocks(at_threshold, outcome) ==
    Scoped("pending", "write") \o Scoped("pending", "read")
    \o (IF ~at_threshold THEN <<>>
        ELSE Scoped("pending", "write") \o Scoped("height", "read")
             \o Scoped("proposed", "write") \o Scoped("consensus", "write")
             \o <<Acquire("consensus", "write")>> \o AfterVoteLocks(outcome)
             \o <<Release("consensus")>>)

\* process_consensus_vote holding proposed_blocks around the consensus scope
VoteLocks_InsideProposed(outcome) ==
    <<Acquire("proposed", "write")>> \o Scoped("consensus", "write")
    \o <<Release("proposed")>> \o AfterVoteLocks(outcome)

\* process_consensus_vote: the consensus guard is dropped before the match
VoteLocks(outcome) == Scoped("consensus", "write") \o AfterVoteLocks(outcome)

\* process_block_proposal: the insert, start_consensus, and the node's own vote
\* with the guard dropped before the match
ProposalLocks(outcome) ==
    Scoped("proposed", "write") \o Scoped("consensus", "write")
    \o Scoped("consensus", "write") \o AfterVoteLocks(outcome)

\* the handlers a task may run
HandlerLocks ==
    {SubmitLocks(at_threshold, outcome) : at_threshold \in BOOLEAN, outcome \in VoteOutcomes}
    \cup {VoteLocks(outcome) : outcome \in VoteOutcomes}
    \cup {ProposalLocks(outcome) : outcome \in VoteOutcomes}

\* a task that runs no handler holds no guard. `ahead` is None while the task is
\* not in the queue of a lock, and else the tasks that were in the queue of the
\* lock before it and are still in it.
IdleLockTask == [program |-> <<>>, held |-> {}, ahead |-> None]

InitLocks ==
    /\ node_id = "tmobile-de"
    /\ InitNode
    /\ InitEngine
    /\ InitVm
    /\ InitMetrics
    /\ InitReplicas
    /\ tasks = [t \in LockTaskIds |-> IdleLockTask]

\* task t is at a lock request
Requests(t, lock) ==
    /\ tasks[t].program # <<>>
    /\ Head(tasks[t].program).op = "acquire"
    /\ Head(tasks[t].program).lock = lock

\* task t waits in the queue of a lock
Waits(t, lock) == Requests(t, lock) /\ tasks[t].ahead # None

Holds(t, lock) == \E guard \in tasks[t].held : guard.lock = lock

\* tokio's RwLock: a write guard excludes every other guard and read guards share
\* the lock; the waiters are served first in, first out
Grantable(t, lock, mode) ==
    /\ \A u \in LockTaskIds :
          \A guard \in tasks[u].held :
              guard.lock = lock => (u # t /\ mode = "read" /\ guard.mode = "read")
    /\ tasks[t].ahead = Some({})

\* a request or a message arrives and its handler starts
LockBegin(t) ==
    /\ tasks[t].program = <<>>
    /\ \E program \in HandlerLocks :
          tasks' = [tasks EXCEPT ![t] = [IdleLockTask EXCEPT !.program = program]]
    /\ UNCHANGED <<nodeVars, engineVars, replicaVars, vm, metrics>>

\* lock.write().await or lock.read().await is polled: the task joins the queue
LockRequest(t) ==
    /\ tasks[t].program # <<>>
    /\ Head(tasks[t].program).op = "acquire"
    /\ tasks[t].ahead = None
    /\ tasks' = [tasks EXCEPT ![t].ahead =
                    Some({u \in LockTaskIds \ {t} :
                             Waits(u, Head(tasks[t].program).lock)})]
    /\ UNCHANGED <<nodeVars, engineVars, replicaVars, vm, metrics>>

\* the lock is granted to the task at the head of the queue
LockAcquire(t) ==
    /\ tasks[t].program # <<>>
    /\ LET request == Head(tasks[t].program)
       IN  /\ request.op = "acquire"
           /\ Grantable(t, request.lock, request.mode)
           /\ tasks' = [u \in LockTaskIds |->
                           IF u = t
                           THEN [program |-> Tail(tasks[t].program),
                                 held |-> tasks[t].held \cup {[lock |-> request.lock,
                                                               mode |-> request.mode]},
                                 ahead |-> None]
                           ELSE IF Waits(u, request.lock)
                           THEN [tasks[u] EXCEPT !.ahead = Some(@[1] \ {t})]
                           ELSE tasks[u]]
    /\ UNCHANGED <<nodeVars, engineVars, replicaVars, vm, metrics>>

\* the guard goes out of scope
LockRelease(t) ==
    /\ tasks[t].program # <<>>
    /\ LET release == Head(tasks[t].program)
       IN  /\ release.op = "release"
           /\ tasks' = [tasks EXCEPT ![t] =
                           [@ EXCEPT !.program = Tail(@),
                                     !.held = {guard \in @ : guard.lock # release.lock}]]
    /\ UNCHANGED <<nodeVars, engineVars, replicaVars, vm, metrics>>

NextLocks ==
    \/ \E t \in LockTaskIds : LockBegin(t)
    \/ \E t \in LockTaskIds : LockRequest(t)
    \/ \E t \in LockTaskIds : LockAcquire(t)
    \/ \E t \in LockTaskIds : LockRelease(t)

\* a task that can run does run: it joins the queue it is about to wait in, takes
\* the lock it is granted and leaves the scope of a guard
SpecLocks ==
    /\ InitLocks
    /\ [][NextLocks]_vars
    /\ \A t \in LockTaskIds :
          WF_vars(LockRequest(t)) /\ WF_vars(LockAcquire(t)) /\ WF_vars(LockRelease(t))

(***************************************************************************)
(* Submissions with their answers: a node, validator or not, is submitted   *)
(* records until it proposes a block, and each submitter gets the result of *)
(* submit_bce_record; the validators of the ballot then vote.               *)
(***************************************************************************)
\* what submit_bce_record returns: Ok(record.record_id), or the error of
\* try_create_settlement_block passed on by `?` (create_settlement_block maps the
\* errors of the consensus engine to InvalidRecord)
SubmitResult(out, record) ==
    IF out.ok THEN OkOf(record.record_id)
    ELSE IF out.res = None THEN Err("NoPendingRecords")
    ELSE Err("InvalidRecord")

\* POST /api/v1/bce/submit: submit_bce_record with a record whose proof verifies
SubmitRecord ==
    LET record == BceRecord(NextPoolId, TRUE, "Pending")
        out == SubmitBceRecord(Node, node_id, record)
        block_hash == local_blocks + 1
    IN  /\ local_blocks = 0
        /\ SetNode(out.node)
        /\ cast_votes' = IF out.node.local_blocks = local_blocks THEN cast_votes
                         ELSE Put(cast_votes, block_hash,
                                  [v \in {node_id} \cap ValidatorIds |-> TRUE])
        /\ last_op' = Some([op |-> "submit_bce_record", record_id |-> record.record_id])
        /\ last_result' = Some(SubmitResult(out, record))
        /\ UNCHANGED <<node_id, vote_msgs, odd_records, timed_out, recast,
                       replicaVars, tasks, vm, metrics>>

NextSubmit == SubmitRecord \/ ApprovalVote

SpecSubmit == InitApproval /\ [][NextSubmit]_vars

(***************************************************************************)
(* The claims.                                                             *)
(***************************************************************************)
\* the records a block lists, as they are in the store
ListedRecords(block) ==
    {bce_records[id] : id \in SeqRange(block.record_ids) \cap DOMAIN bce_records}
\* the blocks in proposed_blocks
ProposedBlocks == {proposed_blocks[h] : h \in DOMAIN proposed_blocks}

C2_SameVotesSameOutcome ==
    \A r1, r2 \in Replicas, h \in ReplicaHashes :
        /\ replica_cast[r1] = replica_cast[r2]
        /\ h \in DOMAIN replica_rounds[r1] /\ replica_rounds[r1][h].finalized
        /\ h \in DOMAIN replica_rounds[r2] /\ replica_rounds[r2][h].finalized
        => replica_rounds[r1][h].result = replica_rounds[r2][h].result

\* C3: no record id is listed by two different finalized blocks, also when the same
\* record_id is submitted again.
C3_RecordInOneFinalizedBlock ==
    \A b1, b2 \in finalized_blocks :
        b1.block_hash # b2.block_hash
            => SeqRange(b1.record_ids) \cap SeqRange(b2.record_ids) = {}

\* C4: in the step in which a round finalizes as rejected, its block leaves
\* proposed_blocks and every record it lists is in the pending pool again, with
\* status Pending and no settlement_id.
C4_RejectionReturnsRecords ==
    [][\A b \in rejected_blocks' \ rejected_blocks :
          /\ b.block_hash \notin DOMAIN proposed_blocks'
          /\ \A id \in SeqRange(b.record_ids) :
                /\ id \in DOMAIN pending_records'
                /\ pending_records'[id].settlement_status = "Pending"
                /\ pending_records'[id].settlement_id = None]_vars

\* C5: a block never enters proposed_blocks listing a record whose proof_verified
\* flag is false.
C5_ProposalListsVerifiedRecordsOnly ==
    [][\A h \in DOMAIN proposed_blocks' \ DOMAIN proposed_blocks :
          \A id \in SeqRange(proposed_blocks'[h].record_ids) \cap DOMAIN bce_records' :
              bce_records'[id].proof_verified]_vars

\* C6: every id a finalized block B lists resolves in the store to a record with
\* status Settled and settled_in_block = hex(B.block_hash).
C6_FinalizedRecordsAreSettled ==
    \A b \in finalized_blocks :
        \A id \in SeqRange(b.record_ids) :
            /\ id \in DOMAIN bce_records
            /\ bce_records[id].settlement_status = "Settled"
            /\ bce_records[id].settled_in_block = Some(HexEncode(b.block_hash))

\* the status changes of the transition graph; none leaves Settled
StatusTransitions ==
    {<<"Pending", "InProgress">>, <<"InProgress", "Settled">>,
     <<"InProgress", "Pending">>, <<"Pending", "Disputed">>,
     <<"InProgress", "Disputed">>}

\* C7: the status of a stored record changes only along the transition graph, and
\* once a record is Settled no step changes its status or its settled_in_block.
C7_StatusFollowsTransitionGraph ==
    [][\A id \in DOMAIN bce_records \cap DOMAIN bce_records' :
          LET old == bce_records[id]
              new == bce_records'[id]
          IN  /\ old.settlement_status # new.settlement_status
                    => <<old.settlement_status, new.settlement_status>>
                          \in StatusTransitions
              /\ old.settlement_status = "Settled"
                    => new.settled_in_block = old.settled_in_block]_vars

\* C8: while a block is in proposed_blocks, every record it lists has status
\* InProgress with settlement_id set.
C8_ProposedRecordsInProgress ==
    \A b \in ProposedBlocks :
        \A record \in ListedRecords(b) :
            /\ record.settlement_status = "InProgress"
            /\ record.settlement_id # None

\* C9: a block never enters proposed_blocks listing a record whose status was not
\* Pending: such a record is not taken into a proposal.
C9_ProposalTakesPendingRecordsOnly ==
    [][\A h \in DOMAIN proposed_blocks' \ DOMAIN proposed_blocks :
          \A id \in SeqRange(proposed_blocks'[h].record_ids) \cap DOMAIN bce_records' :
              bce_records'[id].settlement_status = "Pending"]_vars

\* the validators that have voted approve (TRUE) or reject (FALSE) in the round of h
CastFor(h, approve) == {v \in DOMAIN cast_votes[h] : cast_votes[h][v] = approve}

\* C10: in a round in which three validators vote approve and the other two vote
\* reject, each once, the round is in progress until the fifth vote has been
\* processed, and with the fifth vote it is finalized as rejected.
C10_ThreeOfFiveRejectedAtFifthVote ==
    \A h \in DOMAIN active_rounds :
        LET approvals == Cardinality(CastFor(h, TRUE))
            rejections == Cardinality(CastFor(h, FALSE))
            round == active_rounds[h]
        IN  ~recast /\ approvals <= 3 /\ rejections <= 2
                => /\ approvals + rejections < 5 => ~round.finalized
                   /\ approvals + rejections = 5
                         => round.finalized /\ round.result = Some(FALSE)

\* C11: when ten records with proofs have been submitted and four validators have
\* each voted approve on the proposed block while the fifth stayed silent, the
\* round is finalized as approved, the block is in the store and the height has
\* advanced by exactly one.
C11_FourApprovalsFinalizeAndPersist ==
    \A h \in DOMAIN cast_votes :
        DOMAIN cast_votes[h] = DOMAIN ballot
            => /\ h \in DOMAIN active_rounds
               /\ active_rounds[h].finalized
               /\ active_rounds[h].result = Some(TRUE)
               /\ \E number \in DOMAIN settlement_blocks :
                     settlement_blocks[number].block_hash = h
               /\ h \notin DOMAIN proposed_blocks
               /\ current_block_number = 1

C11_Witness ==
    \E h \in DOMAIN cast_votes :
        /\ DOMAIN cast_votes[h] = DOMAIN ballot
        /\ Cardinality(DOMAIN ballot) = 4
        /\ vote_msgs >= 3
        /\ current_block_number = 1

\* the step is process_vote of a known validator on a round that exists
IsVoteInRound(op) ==
    /\ op # None
    /\ op[1].op = "process_vote"
    /\ op[1].validator_id \in ValidatorIds
    /\ op[1].block_hash \in DOMAIN active_rounds

\* C12: a vote of a known, active validator for a round that is already finalized
\* is reported as AlreadyFinalized(r), r the stored outcome of the round, and leaves
\* the round's vote map and result unchanged.
C12_VoteOnFinalizedRoundIsAlreadyFinalized ==
    [][IsVoteInRound(last_op') /\ active_rounds[last_op'[1].block_hash].finalized
          => /\ last_result' =
                   Some(AlreadyFinalized(active_rounds[last_op'[1].block_hash].result))
             /\ active_rounds' = active_rounds]_vars

\* the step is cleanup_expired_rounds
IsCleanup(op) == op # None /\ op[1].op = "cleanup_expired_rounds"

\* the block hashes whose round was opened and has been removed by cleanup
TimedOutHashes == timed_out \ DOMAIN active_rounds

\* C13: a round that is older than timeout_duration and not finalized when
\* cleanup_expired_rounds runs becomes finalized with result rejected, and every
\* later vote on its block hash returns AlreadyFinalized(Some(false)).
C13_TimeoutFinalizesRejected ==
    [][/\ IsCleanup(last_op') =>
             \A h \in DOMAIN active_rounds :
                 /\ ~active_rounds[h].finalized
                 /\ active_rounds[h].started_at < last_op'[1].cutoff
                 => /\ h \in DOMAIN active_rounds'
                    /\ active_rounds'[h].finalized
                    /\ active_rounds'[h].result = Some(FALSE)
       /\ /\ last_op' # None
          /\ last_op'[1].op = "process_vote"
          /\ last_op'[1].validator_id \in ValidatorIds
          /\ last_op'[1].block_hash \in TimedOutHashes
          => last_result' = Some(AlreadyFinalized(Some(FALSE)))]_vars

\* the block hashes whose round has reached a terminal outcome: finalized, or timed out
TerminalHashes ==
    timed_out \cup {h \in DOMAIN active_rounds : active_rounds[h].finalized}

\* C14: once the round of a block hash has reached its terminal outcome (Finalized
\* or Timeout), no vote on that hash produces InProgress or a second Finalized, also
\* after cleanup has run or a round for the same hash is started again.
C14_NoResultAfterTerminalOutcome ==
    [][/\ last_op' # None
       /\ last_op'[1].op = "process_vote"
       /\ last_op'[1].block_hash \in TerminalHashes
       => last_result'[1].tag \notin {"InProgress", "Finalized"}]_vars

\* the step is process_vote and the vote was accepted (no error)
IsAcceptedVote(op, res) ==
    /\ op # None
    /\ op[1].op = "process_vote"
    /\ res[1].tag # "Err"

\* C15: after each accepted vote with at least min_validators votes in the map, the
\* round is finalized exactly when the number of votes equals the number of active
\* validators or approvals/total >= approval_threshold, the stored result is
\* approved = (approvals/total >= approval_threshold), and the vote returns it.
C15_FinalizedExactlyAtThreshold ==
    [][IsAcceptedVote(last_op', last_result') =>
          LET round == active_rounds'[last_op'[1].block_hash]
              total == Cardinality(DOMAIN round.votes)
              approvals == Cardinality({v \in DOMAIN round.votes : round.votes[v]})
              meets == approvals * 100 >= 67 * total
          IN  total >= 3 =>
                 /\ round.finalized <=> (total = 5 \/ meets)
                 /\ round.finalized =>
                       /\ round.result = Some(meets)
                       /\ last_result' = Some(Finalized(meets))
                 /\ ~round.finalized =>
                       last_result' = Some(InProgress(total, 5))]_vars

\* the third of three approve votes of three validators has finalized a round as
\* approved
C15_Witness ==
    /\ last_result = Some(Finalized(TRUE))
    /\ \E h \in DOMAIN active_rounds :
          /\ active_rounds[h].finalized
          /\ Cardinality(DOMAIN active_rounds[h].votes) = 3
          /\ Approvals(active_rounds[h]) = 3
          /\ active_rounds[h].result = Some(TRUE)

\* C16: no round is finalized by vote processing while fewer than min_validators
\* validators have voted; until then every accepted vote returns InProgress with
\* votes_received the number of recorded votes and votes_needed = min_validators.
C16_NoFinalizationBelowMinimum ==
    [][/\ IsAcceptedVote(last_op', last_result') =>
             LET round == active_rounds'[last_op'[1].block_hash]
                 total == Cardinality(DOMAIN round.votes)
             IN  total < 3 => /\ ~round.finalized
                              /\ last_result' = Some(InProgress(total, 3))
       /\ \A h \in DOMAIN active_rounds' :
             active_rounds'[h].finalized
                => Cardinality(DOMAIN active_rounds'[h].votes) >= 3]_vars

\* a second vote of two has been accepted and returned InProgress{2, 3}
C16_Witness ==
    /\ last_result = Some(InProgress(2, 3))
    /\ \E h \in DOMAIN active_rounds :
          /\ Cardinality(DOMAIN active_rounds[h].votes) = 2
          /\ ~active_rounds[h].finalized

\* C17: in every round the vote map holds at most one recorded vote per validator
\* id (a vote of a validator already in the map adds no entry), and every recorded
\* vote belongs to a validator of the fixed validator set that is active.
C17_OneVotePerKnownValidator ==
    [][\A h \in DOMAIN active_rounds' :
          LET votes == active_rounds'[h].votes
          IN  /\ \A v \in DOMAIN votes : v \in ValidatorIds /\ validators[v].is_active
              /\ Cardinality(DOMAIN votes) <= Cardinality(ValidatorIds)
              /\ /\ IsVoteInRound(last_op')
                 /\ last_op'[1].block_hash = h
                 /\ h \in DOMAIN active_rounds
                 /\ last_op'[1].validator_id \in DOMAIN active_rounds[h].votes
                 => DOMAIN votes = DOMAIN active_rounds[h].votes]_vars

\* a validator has voted twice in a round that holds votes, and the vote of an
\* unknown validator has just been refused
C17_Witness ==
    /\ recast
    /\ last_result = Some(Err("UnknownValidator"))
    /\ \E h \in DOMAIN active_rounds : Cardinality(DOMAIN active_rounds[h].votes) >= 2

\* the errors of the consensus engine
ConsensusErrors ==
    {"RoundAlreadyExists", "TooManyActiveRounds", "UnknownValidator",
     "InactiveValidator", "NoActiveRound", "RoundAlreadyFinalized"}

\* C18: an operation that fails with a consensus error leaves the rounds and their
\* vote maps, the proposed-block map, the pending pool and the height exactly as
\* they were before the operation.
C18_ConsensusErrorChangesNothing ==
    [][/\ last_result' # None
       /\ last_result'[1].tag = "Err"
       /\ last_result'[1].error \in ConsensusErrors
       => /\ active_rounds' = active_rounds
          /\ proposed_blocks' = proposed_blocks
          /\ pending_records' = pending_records
          /\ current_block_number' = current_block_number]_vars

\* the rounds that are still open
OpenRounds == {h \in DOMAIN active_rounds : ~active_rounds[h].finalized}

\* C19: a finalized round no longer occupies a slot counted against
\* max_concurrent_rounds: start_consensus for a new block succeeds whenever fewer
\* than max_concurrent_rounds rounds are still open.
C19_FinalizedRoundFreesSlot ==
    [][/\ last_op' # None
       /\ last_op'[1].op = "start_consensus"
       /\ last_op'[1].block_hash \notin DOMAIN active_rounds
       /\ Cardinality(OpenRounds) < 10
       => last_result' = Some(Ok)]_vars

C21_HeightWithinPersistedBlocks ==
    current_block_number <= Cardinality(DOMAIN settlement_blocks)

\* C22: of two finalized blocks numbered n and n + 1 the latter's previous_hash is
\* the former's block_hash, also when several proposals are open at the same time
\* and finalize in any order.
C22_FinalizedBlocksAreLinked ==
    \A b1, b2 \in finalized_blocks :
        b2.block_number = b1.block_number + 1 => b2.previous_hash = b1.block_hash

\* C23: finalizing a block again after it has been finalized changes neither the
\* persisted blocks, the stored records and their statuses, the pending pool, nor
\* the height.
C23_SecondFinalizationChangesNothing ==
    [][last_op' # last_op =>
          /\ settlement_blocks' = settlement_blocks
          /\ bce_records' = bce_records
          /\ pending_records' = pending_records
          /\ current_block_number' = current_block_number]_vars

\* a block has been finalized and persisted, and its finalization has been called
\* again and has returned
C23_Witness ==
    /\ last_op # None
    /\ last_op[1].op = "finalize_settlement_block"
    /\ last_result = Some(Err("InvalidRecord"))
    /\ current_block_number = 1
    /\ \E b \in finalized_blocks :
          /\ b.block_hash = last_op[1].block_hash
          /\ settlement_blocks[b.block_number] = b
          /\ SeqRange(b.record_ids) \subseteq DOMAIN bce_records

\* the block hashes whose round consensus has finalized as approved
ApprovedHashes ==
    {h \in DOMAIN active_rounds :
        active_rounds[h].finalized /\ active_rounds[h].result = Some(TRUE)}

\* C24: every block approved by consensus is persisted and counted in the height,
\* whether its contracts succeed or fail.
C24_ApprovedBlocksPersistedAndCounted ==
    /\ \A h \in ApprovedHashes :
          \E n \in DOMAIN settlement_blocks : settlement_blocks[n].block_hash = h
    /\ current_block_number = Cardinality(ApprovedHashes)

\* the sum of the values of a map of balances
RECURSIVE SumOfBalances(_)
SumOfBalances(operator_balances) ==
    IF DOMAIN operator_balances = {} THEN 0
    ELSE LET o == CHOOSE x \in DOMAIN operator_balances : TRUE
         IN  operator_balances[o]
                + SumOfBalances([x \in DOMAIN operator_balances \ {o} |->
                                    operator_balances[x]])

\* C25: in every block finalized on a node, proposed locally or received from a
\* peer, the operator balances of the settlement summary sum to zero.
C25_FinalizedBalancesSumToZero ==
    \A b \in finalized_blocks :
        SumOfBalances(b.settlement_summary.operator_balances) = 0

\* C26: the locks are taken in the order pending, proposed, consensus, height: no
\* task takes a lock while it holds one that comes later in this order.
C26_LocksTakenInOrder ==
    \A t \in TaskIds :
        tasks[t].took # None =>
            \A lock \in tasks[t].took[1].held :
                LockRank(lock) <= LockRank(tasks[t].took[1].lock)

\* C27: after a node has handled NewBlock for a block hash, a consensus round for
\* the hash exists on it and holds the node's own vote, and the approve flag of that
\* vote is the outcome of the validation of the block.
C27_NewBlockLeavesRoundWithOwnVote ==
    [][/\ last_op' # None
       /\ last_op'[1].op = "process_block_proposal"
       => LET block_hash == last_op'[1].block_hash
          IN  /\ block_hash \in DOMAIN active_rounds'
              /\ node_id \in DOMAIN active_rounds'[block_hash].votes
              /\ active_rounds'[block_hash].votes[node_id]
                    = ValidateProposedBlock(last_op'[1].block)]_vars

\* C28: the vote a node casts on a received block is approve if record_count is not
\* zero, the number of record_ids is record_count and block_hash is the hash of the
\* block's body, and reject if one of the three fails.
C28_ApproveOnlyWellFormedBlocks ==
    [][/\ last_op' # None
       /\ last_op'[1].op = "process_block_proposal"
       /\ last_result' = Some(Ok)
       => LET block == last_op'[1].block
          IN  active_rounds'[block.block_hash].votes[node_id]
                 = (/\ block.record_count # 0
                    /\ Len(block.record_ids) = block.record_count
                    /\ last_op'[1].hash_consistent)]_vars

\* C29: a record with a record_id and an imsi is accepted exactly if the charge
\* calculated from its usage and rates differs from the declared charge by at most
\* 50; otherwise it is refused with "Charge mismatch: calculated C, actual D", C the
\* calculated and D the declared charge.
C29_ChargeWithinToleranceAccepted ==
    /\ last_op # None
    /\ last_op[1].op = "validate_bce_record"
    /\ last_op[1].record.record_id # ""
    /\ last_op[1].record.imsi # ""
    => LET calculated == ExactCharge(last_op[1].record)
           declared == ToWide(last_op[1].record.wholesale_charge_cents)
       IN  IF WideLess(ToWide(ChargeTolerance), Variance(calculated, declared),
                       WideBytes)
           THEN last_result = Some(ChargeMismatch(calculated, declared))
           ELSE last_result = Some(Ok)

\* C30: when a contract program has executed Halt, gas_used is the number of
\* instructions executed, the Halt included, and execute returns Ok with the value
\* that was on top of the stack when Halt was executed
C30_HaltReturnsTopOfStack ==
    (vm # None /\ vm[1].halted) =>
        /\ vm[1].gas_used = vm[1].executed
        /\ last_result # None =>
              /\ last_result[1].tag = "Ok"
              /\ vm[1].stack # <<>> => last_result[1].value = Top(vm[1].stack)

\* Push 10, Push 5, Add, Halt has returned 15 with gas 4
C30_Witness ==
    /\ vm # None
    /\ vm[1].bytecode = <<Push(10), Push(5), Instruction("Add"), Instruction("Halt")>>
    /\ vm[1].halted
    /\ vm[1].gas_used = 4
    /\ last_result = Some(OkOf(ToU64(15)))

\* the ends of a run that the claim C31 lists: a result after Halt, a stack
\* underflow, a jump out of the bytecode, the gas used up
EndsAsListed ==
    LET m == vm[1]
        res == last_result[1]
    IN  \/ res.tag = "Ok" /\ m.halted
        \/ res = Err("StackUnderflow")
        \/ /\ res.tag = "Err"
           /\ res.error = "InvalidInstruction"
           /\ m.bytecode[m.pc + 1].op \in {"Jump", "JumpIf"}
           /\ res.addr = m.bytecode[m.pc + 1].addr
           /\ res.addr >= Len(m.bytecode)
        \/ res = StorageError("Gas limit exceeded") /\ m.gas_used >= GasLimit

C32_SameProgramSameOutcome ==
    (vm # None /\ last_result # None /\ last_op # None /\ last_op[1].first # None) =>
        /\ last_result[1] = last_op[1].first[1].result
        /\ vm[1].logs = last_op[1].first[1].logs
        /\ vm[1].storage = last_op[1].first[1].storage

\* the instruction about to be executed is VerifyProof or CheckSignature, its
\* operands are on the stack and one of the storage slots they name is empty
VerifiesEmptySlot ==
    /\ vm # None
    /\ last_result = None
    /\ ~vm[1].halted
    /\ vm[1].pc < Len(vm[1].bytecode)
    /\ LET m == vm[1]
           op == m.bytecode[m.pc + 1].op
           operands == IF op = "VerifyProof" THEN 2 ELSE 3
       IN  /\ op \in {"VerifyProof", "CheckSignature"}
           /\ Len(m.stack) >= operands
           /\ \E i \in (Len(m.stack) - operands + 1)..Len(m.stack) :
                 m.stack[i][1] \notin DOMAIN m.storage

\* C33: VerifyProof and CheckSignature do not push 1 when a storage slot named by
\* their operands is empty (the code has no switch that enables a demo mode)
C33_EmptySlotIsNotSuccess ==
    [][(VerifiesEmptySlot /\ vm' # None /\ vm'[1].executed = vm[1].executed + 1)
         => ~(vm'[1].stack # <<>> /\ Top(vm'[1].stack) = ToU64(1))]_vars

\* the status the claim C34 gives for the calls made so far: a call is successful
\* when it returned Ok
StatusOfCalls ==
    LET AtLeast(op, percent) ==
            SuccessRateAtLeast(metrics.returned_ok[op],
                               metrics.calls[op] - metrics.returned_ok[op], percent)
    IN  IF AtLeast("generate_proof", 95) /\ AtLeast("verify_proof", 95)
        THEN "healthy"
        ELSE IF AtLeast("generate_proof", 80) /\ AtLeast("verify_proof", 80)
        THEN "degraded"
        ELSE "unhealthy"

\* C34: health_check reports healthy when both success rates are at least 95%,
\* degraded when both are at least 80% but not both at least 95%, and unhealthy
\* otherwise, each rate being the share of the successful calls among all calls of
\* generate_proof, or of verify_proof, made so far
C34_HealthFollowsSuccessRates ==
    (last_op = Some([op |-> "health_check"])) => last_result = Some(StatusOfCalls)

\* the accepted records that are not settled
UnsettledRecords ==
    {id \in DOMAIN bce_records : bce_records[id].settlement_status # "Settled"}

\* the ids listed in the proposed blocks whose round is still open
OpenlyProposed ==
    UNION {SeqRange(proposed_blocks[h].record_ids) :
              h \in {g \in DOMAIN proposed_blocks :
                        g \in DOMAIN active_rounds /\ ~active_rounds[g].finalized}}

\* a step of create_settlement_block that failed after the snapshot: the block
\* was put in proposed_blocks, and its round was not opened or does not hold the
\* proposer's own vote
ProposeFailedFor(h) ==
    /\ h \in DOMAIN proposed_blocks' \ DOMAIN proposed_blocks
    /\ \/ h \notin DOMAIN active_rounds'
       \/ node_id \notin DOMAIN active_rounds'[h].votes

\* C35: every accepted record that is not settled is in the pending pool or listed
\* in a proposed block whose round is open, and when create_settlement_block fails
\* after it has snapshotted the pool, the snapshotted records are in the pool again
C35_UnsettledRecordsArePooledOrProposed ==
    /\ [](UnsettledRecords \subseteq DOMAIN pending_records \cup OpenlyProposed)
    /\ [][\A h \in DOMAIN proposed_blocks' :
             ProposeFailedFor(h) =>
                 SeqRange(proposed_blocks'[h].record_ids) \subseteq DOMAIN pending_records']_vars

\* C36: a vote recorded in an open round is not replaced by a later vote of the
\* same validator: the recorded approve flag of a validator in a round never
\* changes, and the approval and rejection counts of a round never decrease
C36_RecordedVoteIsNotReplaced ==
    [][\A h \in DOMAIN active_rounds \cap DOMAIN active_rounds' :
          LET before == active_rounds[h]
              after == active_rounds'[h]
          IN  /\ \A v \in DOMAIN before.votes :
                    v \in DOMAIN after.votes /\ after.votes[v] = before.votes[v]
              /\ Approvals(after) >= Approvals(before)
              /\ Rejections(after) >= Rejections(before)]_vars

\* C37: no two different finalized blocks of a node carry the same block_number,
\* also when two proposals are open at the same time and both are approved
C37_FinalizedBlockNumbersDiffer ==
    \A b1, b2 \in finalized_blocks :
        b1 # b2 => b1.block_number # b2.block_number

\* C38: no interleaving of concurrent submit, vote and NewBlock handlers leaves
\* tasks waiting for ever for pipeline locks held by each other: every task that
\* requests a pipeline lock eventually holds it (a task at a request leaves the
\* request only by taking the lock)
C38_EveryLockRequestIsGranted ==
    \A t \in LockTaskIds :
        []<>(\A lock \in {"pending", "proposed", "consensus", "height"} :
                ~Requests(t, lock))

\* create_settlement_block holds the consensus guard and, inside its scope, the
\* guard of the pool, while another task waits in the queue of consensus
C38_Witness ==
    \E t, u \in LockTaskIds :
        /\ Holds(t, "consensus") /\ Holds(t, "pending")
        /\ Waits(u, "consensus")

\* C39: when submit_bce_record returns an error, the submitted record has been
\* neither persisted nor put in the pending pool nor listed in a proposed block,
\* and a record that was persisted and pooled is acknowledged with success
C39_FailedSubmitLeavesNoRecord ==
    (last_op # None /\ last_op[1].op = "submit_bce_record") =>
        LET record_id == last_op[1].record_id
        IN  /\ last_result[1].tag = "Err" =>
                  /\ record_id \notin DOMAIN bce_records
                  /\ record_id \notin DOMAIN pending_records
                  /\ \A h \in DOMAIN proposed_blocks :
                        record_id \notin SeqRange(proposed_blocks[h].record_ids)
            /\ (record_id \in DOMAIN bce_records /\ record_id \in DOMAIN pending_records)
                  => last_result[1].tag = "Ok"

\* the instruction at a jump target starts a branch: it is in the bytecode and
\* follows the Halt that ends the branch before it
StartsBranch(bytecode, addr) ==
    /\ addr < Len(bytecode)
    /\ addr > 0
    /\ bytecode[addr].op = "Halt"

\* C40: in the standard validator and executor contracts every Jump and JumpIf
\* target is a valid instruction index and the first instruction of a branch, and
\* a run in which the proof, membership and signature checks all succeed halts
\* with result 1 and without a VM error
C40_StandardContractsReachSuccess ==
    /\ \A bytecode \in StandardContracts :
          \A i \in 1..Len(bytecode) :
              bytecode[i].op \in {"Jump", "JumpIf"} => StartsBranch(bytecode, bytecode[i].addr)
    /\ (/\ vm # None
        /\ vm[1].bytecode \in StandardContracts
        /\ vm[1].crypto_verifier = "true"
        /\ last_result # None)
          => last_result = Some(OkOf(ToU64(1)))

====
